---- MODULE Spec2Model ----
(***************************************************************************)
(* Payment gateway (meharifitih/cash-flow): the creation service, the      *)
(* GORM payment repository, the payment processor and the RabbitMQ         *)
(* consumer loop, as one state machine.                                    *)
(*                                                                         *)
(*   Spec      the deployed system: API calls of CreatePayment, the        *)
(*             broker queue, the worker consumer loops.                    *)
(*   SpecRepo  the repository and the processor called directly by         *)
(*             concurrent callers on a store that already holds payments.  *)
(***************************************************************************)
EXTENDS Integers, Sequences, FiniteSets, TLC

\* ------------------------------------------------------------------ bounds
NumClients == 2      \* concurrent CreatePayment calls (one call each)
NumWorkers == 2      \* worker processes, one consumer loop each
NumCallers == 2      \* concurrent direct callers in SpecRepo (one call each)
MaxTime == 2         \* the wall clock takes the values 1..MaxTime
MaxMalformed == 1    \* undecodable bodies a foreign publisher may enqueue
MaxNotices == 2      \* notices on the queue when the workers start (SpecWorker)

\* ------------------------------------------------------- program constants
\* faulty variant: no prefetch limit reaches the broker
PrefetchCountNone == MaxNotices + MaxMalformed

PrefetchCount == 1

PaymentStatusPending == "PENDING"
PaymentStatusSuccess == "SUCCESS"
PaymentStatusFailed == "FAILED"
PaymentStatus == {PaymentStatusPending, PaymentStatusSuccess, PaymentStatusFailed}

CurrencyETB == "ETB"
CurrencyUSD == "USD"

\* uuid.Nil and the zero time.Time
NilUUID == 0
ZeroTime == 0

Clients == 1..NumClients
Workers == 1..NumWorkers
Callers == (NumWorkers + 1)..(NumWorkers + NumCallers)
Procs == Workers \cup Callers
NoProc == 0

\* identifiers uuid.New() hands out, in order
PaymentIDs == 1..NumClients

\* request inputs
Amounts == {-1, 0, 1}
CurrencyInputs == {CurrencyETB, CurrencyUSD, "EUR"}
ReferenceInputs == {<< >>, <<" ">>, <<"a">>, <<" ", "a">>, <<"a", " ">>, <<"b">>}

Min(a, b) == IF a < b THEN a ELSE b

\* --------------------------------------------------------------- errors
\* An error is its message, a sequence of words; nil is the empty sequence.
\* fmt.Errorf("prefix: %w", err) is Wrap.
NilErr == << >>

Wrap(prefix, err) == prefix \o <<":">> \o err

\* strings.Contains on messages: sub occurs as a contiguous run of words
Contains(s, sub) ==
    \E i \in 1..(Len(s) - Len(sub) + 1) : SubSeq(s, i, i + Len(sub) - 1) = sub

\* what the database driver or the AMQP channel reports; opaque text
DbError == <<"db", "unavailable">>
UniqueViolation == <<"duplicate", "key", "value", "violates", "unique", "constraint">>
ChannelError == <<"channel", "closed">>

ErrAmount == <<"amount", "must", "be", "greater", "than", "zero">>
ErrCurrency == <<"currency", "must", "be", "ETB", "or", "USD">>
ErrReference == <<"reference", "is", "required">>
ErrRefExists == <<"reference", "already", "exists">>
\* faulty variant: a missing row is reported like any failure of the lock statement
ErrNotFoundAsLockFailure ==
    <<"failed", "to", "lock", "payment", ":", "record", "not", "found">>

ErrNotFound == <<"payment", "not", "found">>
\* faulty variant: the message does not name the current status
ErrAlreadyProcessedNoStatus(status) == <<"payment", "already", "processed">>

ErrAlreadyProcessed(status) ==
    Wrap(<<"payment", "already", "processed">>, <<"current", "status", "is", status>>)

\* --------------------------------------------------------------- strings
IsSpace(ch) == ch \in {" ", "\t", "\n"}

RECURSIVE TrimLeft(_)
TrimLeft(s) == IF s # << >> /\ IsSpace(Head(s)) THEN TrimLeft(Tail(s)) ELSE s

RECURSIVE TrimRight(_)
TrimRight(s) ==
    IF s # << >> /\ IsSpace(s[Len(s)]) THEN TrimRight(SubSeq(s, 1, Len(s) - 1)) ELSE s

\* faulty variant: the reference is used as it was sent
TrimSpaceNone(s) == s

\* strings.TrimSpace
TrimSpace(s) == TrimRight(TrimLeft(s))

\* --------------------------------------------------------------- entities
\* core.Payment / db.Payment
NilPayment ==
    [ID |-> NilUUID, Amount |-> 0, Currency |-> "", Reference |-> << >>,
     Status |-> "", CreatedAt |-> ZeroTime, UpdatedAt |-> ZeroTime]

\* the conversions copy field by field
fromCore(p) ==
    [ID |-> p.ID, Amount |-> p.Amount, Currency |-> p.Currency,
     Reference |-> p.Reference, Status |-> p.Status,
     CreatedAt |-> p.CreatedAt, UpdatedAt |-> p.UpdatedAt]

\* faulty variant: the conversion loses the status
toCoreNoStatus(p) ==
    [ID |-> p.ID, Amount |-> p.Amount, Currency |-> p.Currency,
     Reference |-> p.Reference, Status |-> "",
     CreatedAt |-> p.CreatedAt, UpdatedAt |-> p.UpdatedAt]

toCore(p) ==
    [ID |-> p.ID, Amount |-> p.Amount, Currency |-> p.Currency,
     Reference |-> p.Reference, Status |-> p.Status,
     CreatedAt |-> p.CreatedAt, UpdatedAt |-> p.UpdatedAt]

\* faulty variant: the hook leaves the updated timestamp unset
BeforeCreateOnlyCreated(p, t) ==
    [p EXCEPT !.CreatedAt = IF p.CreatedAt = ZeroTime THEN t ELSE @]

\* GORM hook before INSERT; t is the value time.Now() returns. uuid.New() for
\* a nil identifier does not arise: CreatePayment always sets the identifier.
BeforeCreate(p, t) ==
    [p EXCEPT !.CreatedAt = IF p.CreatedAt = ZeroTime THEN t ELSE @,
              !.UpdatedAt = IF p.UpdatedAt = ZeroTime THEN t ELSE @]

\* faulty variant: the hook stamps the created timestamp too
BeforeUpdateTouchCreated(p, t) == [p EXCEPT !.UpdatedAt = t, !.CreatedAt = t]

\* GORM hook before UPDATE
BeforeUpdate(p, t) == [p EXCEPT !.UpdatedAt = t]

IsPending(p) == p.Status = PaymentStatusPending

IsTerminal(p) == p.Status = PaymentStatusSuccess \/ p.Status = PaymentStatusFailed

\* input.PaymentResponse
NilResponse ==
    [ID |-> NilUUID, Amount |-> 0, Currency |-> "", Reference |-> << >>,
     Status |-> "", CreatedAt |-> ZeroTime]

\* PaymentMessage, json.Marshal and json.Unmarshal of its body
NilMessage == [PaymentID |-> NilUUID, Timestamp |-> ZeroTime]

Marshal(m) == [wellFormed |-> TRUE, payment_id |-> m.PaymentID, timestamp |-> m.Timestamp]

MalformedBody == [wellFormed |-> FALSE, payment_id |-> NilUUID, timestamp |-> ZeroTime]

Unmarshal(body) ==
    IF body.wellFormed
    THEN [ok |-> TRUE, msg |-> [PaymentID |-> body.payment_id, Timestamp |-> body.timestamp]]
    ELSE [ok |-> FALSE, msg |-> NilMessage]

\* ----------------------------------------------------------------- state
VARIABLES
    payments,   \* the payments table: the committed rows
    rowLock,    \* per identifier, the process holding the row lock (FOR UPDATE)
    now,        \* the wall clock
    nextId,     \* the next identifier uuid.New() returns
    cl,         \* per client, its CreatePayment call
    queue,      \* the payment_processing queue: deliveries ready for a consumer
    unacked,    \* per worker, the deliveries pushed to it and not yet settled
    malformed,  \* undecodable bodies enqueued so far
    wk,         \* per worker, its consumer loop
    pr,         \* per process, its PaymentProcessor.ProcessPayment call
    tx,         \* per process, its GormPaymentRepository.ProcessPayment call
    hc,         \* per direct caller (SpecRepo), its call
    log,        \* SpecRepo: the calls that returned, in order of return
    payments0,  \* SpecRepo: the rows the store held at the start
    changes,    \* history: per identifier, committed writes that changed the status
    acked,      \* history: the notices the consumer loops acknowledged
    lockOrder,  \* history (SpecRepo): per identifier, the callers in the order
                \* in which their calls acquired the row's lock
    sent        \* history (SpecTrim): per client, the reference as it was sent

vars == <<payments, rowLock, now, nextId, cl, queue, unacked, malformed, wk, pr, tx,
          hc, log, payments0, changes, acked, lockOrder, sent>>

\* -------------------------------------------------------- store queries
Row(id) == CHOOSE p \in payments : p.ID = id

RowExists(id) == \E p \in payments : p.ID = id

\* faulty variant: the count leaves out the rows in PENDING
ReferenceExistsNotPending(reference) ==
    Cardinality({p \in payments : p.Reference = reference
                                   /\ p.Status # PaymentStatusPending}) > 0

\* faulty variant: the count is compared with 1
ReferenceExistsOffByOne(reference) ==
    Cardinality({p \in payments : p.Reference = reference}) > 1

\* SELECT count(*) FROM payments WHERE reference = ?  ... count > 0
ReferenceExists(reference) == Cardinality({p \in payments : p.Reference = reference}) > 0

\* faulty variant: the table has no unique index on reference
ViolatesUniquePrimaryKeyOnly(p) == \E q \in payments : q.ID = p.ID

\* the UNIQUE constraints of the table: primary key and reference
ViolatesUnique(p) == \E q \in payments : q.ID = p.ID \/ q.Reference = p.Reference

StatusOf(id) == IF RowExists(id) THEN Row(id).Status ELSE ""

\* time.Now(): the clock never runs backwards and is read as t
ReadsClock(t) == t \in now..Min(now + 1, MaxTime) /\ now' = t

\* ------------------------------------------------------ initial values
IdleClient ==
    [pc |-> "idle",
     req |-> [Amount |-> 0, Currency |-> "", Reference |-> << >>],
     payment |-> NilPayment,
     resp |-> NilResponse,
     err |-> NilErr,
     published |-> << >>,
     got |-> NilResponse,
     getErr |-> NilErr]

IdleWorker == [pc |-> "range", paymentMsg |-> NilMessage]

IdleProcessor == [pc |-> "idle", paymentID |-> NilUUID, status |-> "", err |-> NilErr]

IdleTx == [pc |-> "idle", id |-> NilUUID, newStatus |-> "", dbPayment |-> NilPayment,
           err |-> NilErr]

IdleCaller == [pc |-> "idle", via |-> "", id |-> NilUUID, target |-> "", startLen |-> 0]

\* ============================================================ CreatePayment
\* the requests the clients send: every combination of the inputs, except that
\* the reference "a" is sent with USD and the reference "b" with ETB
RequestInputs ==
    {r \in [Amount : Amounts, Currency : CurrencyInputs, Reference : ReferenceInputs] :
        /\ r.Currency = CurrencyETB => TrimSpace(r.Reference) # <<"a">>
        /\ r.Currency = CurrencyUSD => TrimSpace(r.Reference) # <<"b">>}

\* faulty variant: the currency is validated before the amount
ValidationErrorCurrencyFirst(req) ==
    IF req.Currency # CurrencyETB /\ req.Currency # CurrencyUSD THEN ErrCurrency
    ELSE IF req.Amount <= 0 THEN ErrAmount
    ELSE IF TrimSpace(req.Reference) = << >> THEN ErrReference
    ELSE NilErr

\* the three validations, in the order of the code; nil when all pass
ValidationError(req) ==
    IF req.Amount <= 0 THEN ErrAmount
    ELSE IF req.Currency # CurrencyETB /\ req.Currency # CurrencyUSD THEN ErrCurrency
    ELSE IF TrimSpace(req.Reference) = << >> THEN ErrReference
    ELSE NilErr

\* faulty variant: the entity is built with a terminal status
NewPaymentEntityWrongStatus(req, id) ==
    [ID |-> id, Amount |-> req.Amount, Currency |-> req.Currency,
     Reference |-> req.Reference, Status |-> PaymentStatusSuccess,
     CreatedAt |-> ZeroTime, UpdatedAt |-> ZeroTime]

\* the entity CreatePayment builds: a fresh identifier, status PENDING
NewPaymentEntity(req, id) ==
    [ID |-> id, Amount |-> req.Amount, Currency |-> req.Currency,
     Reference |-> req.Reference, Status |-> PaymentStatusPending,
     CreatedAt |-> ZeroTime, UpdatedAt |-> ZeroTime]

\* the response of CreatePayment and of GetPayment
ResponseOf(payment) ==
    [ID |-> payment.ID, Amount |-> payment.Amount, Currency |-> payment.Currency,
     Reference |-> payment.Reference, Status |-> payment.Status,
     CreatedAt |-> payment.CreatedAt]

\* faulty variant: the notice is published twice
PublishedBodiesTwice(paymentID, t) ==
    <<Marshal([PaymentID |-> paymentID, Timestamp |-> t]),
      Marshal([PaymentID |-> paymentID, Timestamp |-> t])>>

\* the bodies one PublishPaymentMessage(paymentID) hands to the channel
PublishedBodies(paymentID, t) == <<Marshal([PaymentID |-> paymentID, Timestamp |-> t])>>

\* the deliveries the queue gets for these bodies
AsDeliveries(bodies) == [i \in 1..Len(bodies) |-> [Body |-> bodies[i], Redelivered |-> FALSE]]

\* faulty variant: the created row is deleted when the publish fails
StoreAfterPublishFailureRollback(payment) == {q \in payments : q.ID # payment.ID}

\* faulty variant: a publish failure marks the created row FAILED
StoreAfterPublishFailureMarkFailed(payment) ==
    {IF q.ID = payment.ID THEN [q EXCEPT !.Status = PaymentStatusFailed] ELSE q : q \in payments}

\* the table after a publish failure: CreatePayment only returns the error
StoreAfterPublishFailure(payment) == payments

ClientDone(c, err, resp) ==
    [cl[c] EXCEPT !.pc = "done", !.err = err, !.resp = resp]

\* CreatePayment(req) is entered with the request as it was sent
CreatePaymentEntered(c, req) ==
    /\ cl[c].pc = "idle"
    /\ cl' = [cl EXCEPT ![c] = [@ EXCEPT !.pc = "validate", !.req = req]]
    /\ UNCHANGED <<payments, rowLock, now, nextId, queue, unacked, malformed, wk, pr, tx,
                   hc, log, payments0, changes, acked, lockOrder>>

\* the call
CreatePaymentCall(c) ==
    \E req \in RequestInputs : CreatePaymentEntered(c, req) /\ UNCHANGED sent

\* the call, with the reference that was sent kept on record
CreatePaymentCallNoted(c) ==
    \E req \in RequestInputs :
       /\ CreatePaymentEntered(c, req)
       /\ sent' = [sent EXCEPT ![c] = req.Reference]

\* the validation (lines 32-46): amount, currency, reference
CreatePaymentValidate(c) ==
    /\ cl[c].pc = "validate"
    /\ LET req == cl[c].req
           err == ValidationError(req)
           \* req.Reference = strings.TrimSpace(req.Reference) runs once the
           \* amount and the currency have passed
           seen == IF err \in {ErrAmount, ErrCurrency} THEN req
                   ELSE [req EXCEPT !.Reference = TrimSpace(req.Reference)]
       IN  cl' = [cl EXCEPT ![c] =
                     IF err # NilErr
                     THEN [@ EXCEPT !.pc = "done", !.req = seen, !.err = err]
                     ELSE [@ EXCEPT !.pc = "refcheck", !.req = seen]]
    /\ UNCHANGED <<payments, rowLock, now, nextId, queue, unacked, malformed, wk, pr, tx,
                   hc, log, payments0, changes, acked, lockOrder, sent>>

\* paymentRepo.ReferenceExists and the entity (lines 48-64)
CreatePaymentCheckReference(c) ==
    /\ cl[c].pc = "refcheck"
    /\ \/ /\ cl' = [cl EXCEPT ![c] =
                     ClientDone(c, Wrap(<<"failed", "to", "validate", "reference">>,
                                        Wrap(<<"failed", "to", "check", "reference">>, DbError)),
                                NilResponse)]
          /\ UNCHANGED nextId
       \/ /\ ReferenceExists(cl[c].req.Reference)
          /\ cl' = [cl EXCEPT ![c] = ClientDone(c, ErrRefExists, NilResponse)]
          /\ UNCHANGED nextId
       \/ /\ ~ReferenceExists(cl[c].req.Reference)
          /\ cl' = [cl EXCEPT ![c] =
                     [@ EXCEPT !.pc = "create",
                               !.payment = NewPaymentEntity(cl[c].req, nextId)]]
          /\ nextId' = nextId + 1
    /\ UNCHANGED <<payments, rowLock, now, queue, unacked, malformed, wk, pr, tx,
                   hc, log, payments0, changes, acked, lockOrder, sent>>

\* faulty variant: the INSERT is not yet in the table when Create returns
StoreAfterCreateDeferred(dbPayment) == payments

\* the table once gormDB.Create has returned nil (repository lines 267-269)
StoreAfterCreate(dbPayment) == payments \cup {dbPayment}

\* paymentRepo.Create (lines 66-69; repository lines 266-275)
CreatePaymentInsert(c) ==
    /\ cl[c].pc = "create"
    /\ \E t \in 1..MaxTime :
         /\ ReadsClock(t)
         /\ LET dbPayment == BeforeCreate(fromCore(cl[c].payment), t)
                failed(dberr) ==
                    ClientDone(c, Wrap(<<"failed", "to", "create", "payment">>,
                                       Wrap(<<"failed", "to", "create", "payment">>, dberr)),
                               NilResponse)
            IN  \/ /\ cl' = [cl EXCEPT ![c] = failed(DbError)]
                   /\ UNCHANGED payments
                \/ /\ ViolatesUnique(dbPayment)
                   /\ cl' = [cl EXCEPT ![c] = failed(UniqueViolation)]
                   /\ UNCHANGED payments
                \/ /\ ~ViolatesUnique(dbPayment)
                   /\ payments' = StoreAfterCreate(dbPayment)
                   /\ cl' = [cl EXCEPT ![c] =
                              [@ EXCEPT !.pc = "publish",
                                        !.payment = [@ EXCEPT !.CreatedAt = dbPayment.CreatedAt,
                                                              !.UpdatedAt = dbPayment.UpdatedAt]]]
    /\ UNCHANGED <<rowLock, nextId, queue, unacked, malformed, wk, pr, tx,
                   hc, log, payments0, changes, acked, lockOrder, sent>>

\* faulty variant: the failed publish is repeated until the notice is queued
QueueAfterPublishFailureRetried(paymentID, t) ==
    queue \o AsDeliveries(PublishedBodies(paymentID, t))

\* the queue after a publish failure: CreatePayment returns the error and
\* publishes nothing later (lines 72-76)
QueueAfterPublishFailure(paymentID, t) == queue

\* faulty variant: the publish failure is reported like a failed insert
ErrPublishGeneric(err) == Wrap(<<"failed", "to", "create", "payment">>, err)

\* the error CreatePayment returns when the publish fails (line 75)
ErrPublish(err) ==
    Wrap(<<"payment", "created", "but", "failed", "to", "publish", "message">>, err)

\* paymentMsg.PublishPaymentMessage and the response (lines 71-86)
CreatePaymentPublish(c) ==
    /\ cl[c].pc = "publish"
    /\ \E t \in 1..MaxTime :
         /\ ReadsClock(t)
         /\ \/ /\ cl' = [cl EXCEPT ![c] =
                           ClientDone(c, ErrPublish(Wrap(<<"failed", "to", "publish", "message">>,
                                                           ChannelError)),
                                      NilResponse)]
                /\ payments' = StoreAfterPublishFailure(cl[c].payment)
                /\ queue' = QueueAfterPublishFailure(cl[c].payment.ID, t)
             \/ /\ LET bodies == PublishedBodies(cl[c].payment.ID, t)
                   IN  /\ queue' = queue \o AsDeliveries(bodies)
                       /\ cl' = [cl EXCEPT ![c] =
                                  [@ EXCEPT !.pc = "done",
                                            !.resp = ResponseOf(cl[c].payment),
                                            !.published = @ \o bodies]]
                /\ UNCHANGED payments
    /\ UNCHANGED <<rowLock, nextId, unacked, malformed, wk, pr, tx,
                   hc, log, payments0, changes, acked, lockOrder, sent>>

\* ============================================================== GetPayment
\* the client that received a response asks for the payment it names:
\* GetPayment(id), paymentRepo.GetByID (service lines 90-103, repository
\* lines 278-287)
GetPayment(c) ==
    /\ cl[c].pc = "done"
    /\ cl[c].err = NilErr
    /\ LET id == cl[c].resp.ID
           failed(err) == [cl[c] EXCEPT !.pc = "got",
                                        !.getErr = Wrap(<<"failed", "to", "get", "payment">>, err)]
       IN  \/ cl' = [cl EXCEPT ![c] =
                       failed(Wrap(<<"failed", "to", "get", "payment">>, DbError))]
           \/ /\ ~RowExists(id)
              /\ cl' = [cl EXCEPT ![c] = failed(ErrNotFound)]
           \/ /\ RowExists(id)
              /\ cl' = [cl EXCEPT ![c] =
                         [@ EXCEPT !.pc = "got", !.got = ResponseOf(toCore(Row(id)))]]
    /\ UNCHANGED <<payments, rowLock, now, nextId, queue, unacked, malformed, wk, pr, tx,
                   hc, log, payments0, changes, acked, lockOrder, sent>>

\* ===================================================== the broker's queue
\* basic.deliver: the broker pushes the head of the queue to a consumer that
\* has fewer than PrefetchCount unsettled deliveries (Qos, lines 138-142)
Deliver(w) ==
    /\ queue # << >>
    /\ wk[w].pc # "stopped"
    /\ Len(unacked[w]) < PrefetchCount
    /\ unacked' = [unacked EXCEPT ![w] = Append(@, Head(queue))]
    /\ queue' = Tail(queue)
    /\ UNCHANGED <<payments, rowLock, now, nextId, cl, malformed, wk, pr, tx,
                   hc, log, payments0, changes, acked, lockOrder, sent>>

\* a publisher other than CreatePayment puts a body on the queue that
\* json.Unmarshal rejects
PublishMalformed ==
    /\ malformed < MaxMalformed
    /\ malformed' = malformed + 1
    /\ queue' = Append(queue, [Body |-> MalformedBody, Redelivered |-> FALSE])
    /\ UNCHANGED <<payments, rowLock, now, nextId, cl, unacked, wk, pr, tx,
                   hc, log, payments0, changes, acked, lockOrder, sent>>

\* msg.Ack(false): the delivery the loop is handling is settled and gone
Ack(w) == /\ unacked' = [unacked EXCEPT ![w] = Tail(@)]
          /\ acked' = acked \cup {[body |-> Head(unacked[w]).Body, err |-> pr[w].err]}
          /\ UNCHANGED queue

\* faulty variant: msg.Nack(false, false), the rejected delivery is discarded
NackDiscard(w) == /\ unacked' = [unacked EXCEPT ![w] = Tail(@)]
                  /\ UNCHANGED <<queue, acked>>

\* faulty variant: the rejection is not sent, the delivery stays unsettled
NackNotSent(w) == UNCHANGED <<unacked, queue, acked>>

\* msg.Nack(false, true): settled and put back at the head of the queue
Nack(w) == /\ unacked' = [unacked EXCEPT ![w] = Tail(@)]
           /\ queue' = <<[Head(unacked[w]) EXCEPT !.Redelivered = TRUE]>> \o queue
           /\ UNCHANGED acked

\* faulty variant: the deliveries of a closed channel are lost (auto-ack)
RequeuedNone(deliveries) == << >>

\* the deliveries of a closed channel go back to the head of the queue
Requeued(deliveries) ==
    [i \in 1..Len(deliveries) |-> [deliveries[i] EXCEPT !.Redelivered = TRUE]]

\* ======================================================== worker process
\* the worker process ends, by SIGINT/SIGTERM (main returns, the deferred
\* Close calls run) or by a crash, wherever its consumer loop is: the broker
\* requeues what the closed channel had not settled (auto-ack is off), the
\* database rolls back the transaction of the closed connection; a process
\* started in its place is another worker
Stop(w) ==
    /\ wk[w].pc # "stopped"
    /\ queue' = Requeued(unacked[w]) \o queue
    /\ unacked' = [unacked EXCEPT ![w] = << >>]
    /\ rowLock' = [id \in DOMAIN rowLock |-> IF rowLock[id] = w THEN NoProc ELSE rowLock[id]]
    /\ wk' = [wk EXCEPT ![w] = [pc |-> "stopped", paymentMsg |-> NilMessage]]
    /\ pr' = [pr EXCEPT ![w] = IdleProcessor]
    /\ tx' = [tx EXCEPT ![w] = IdleTx]
    /\ UNCHANGED <<payments, now, nextId, cl, malformed, hc, log, payments0, changes, acked, lockOrder, sent>>

\* ========================================================= consumer loop
\* faulty variant: a failed lock statement counts as terminal too
isTerminalErrorLockFailure(err) ==
    IF err = NilErr THEN FALSE
    ELSE \/ Contains(err, <<"already", "processed">>)
         \/ Contains(err, <<"payment", "not", "found">>)
         \/ Contains(err, <<"failed", "to", "lock", "payment">>)

\* faulty variant: only the already-processed error is terminal
isTerminalErrorAlreadyProcessedOnly(err) ==
    IF err = NilErr THEN FALSE ELSE Contains(err, <<"already", "processed">>)

\* faulty variant: only the not-found error is terminal
isTerminalErrorNotFoundOnly(err) ==
    IF err = NilErr THEN FALSE ELSE Contains(err, <<"payment", "not", "found">>)

\* faulty variant: every handler error ends in an ack
isTerminalErrorAnyError(err) == err # NilErr

\* isTerminalError (lines 206-212)
isTerminalError(err) ==
    IF err = NilErr THEN FALSE
    ELSE Contains(err, <<"already", "processed">>) \/ Contains(err, <<"payment", "not", "found">>)

\* for msg := range msgs; json.Unmarshal; the handler call (lines 163-172)
ConsumeNext(w) ==
    /\ wk[w].pc = "range"
    /\ unacked[w] # << >>
    /\ LET r == Unmarshal(Head(unacked[w]).Body)
       IN  IF ~r.ok
           THEN /\ Nack(w)
                /\ UNCHANGED <<wk, pr>>
           ELSE /\ wk' = [wk EXCEPT ![w] = [pc |-> "handler", paymentMsg |-> r.msg]]
                /\ pr' = [pr EXCEPT ![w] = [IdleProcessor EXCEPT !.pc = "choose",
                                                                 !.paymentID = r.msg.PaymentID]]
                /\ UNCHANGED <<queue, unacked, acked>>
    /\ UNCHANGED <<payments, rowLock, now, nextId, cl, malformed, tx,
                   hc, log, payments0, changes, lockOrder, sent>>

\* faulty variant: the loop returns on an error it does not know as terminal
AfterSettleReturnOnError(err) ==
    IF err # NilErr /\ ~isTerminalError(err)
    THEN [pc |-> "returned", paymentMsg |-> NilMessage]
    ELSE IdleWorker

\* where the loop is once the delivery is settled: `continue` after an error,
\* the end of the body after a success; both lead to the next message
AfterSettle(err) == IdleWorker

\* the handler has returned: ack or nack, then the next message (lines 172-186)
Settle(w) ==
    /\ wk[w].pc = "handler"
    /\ pr[w].pc = "done"
    /\ IF pr[w].err # NilErr
       THEN IF isTerminalError(pr[w].err) THEN Ack(w) ELSE Nack(w)
       ELSE Ack(w)
    /\ wk' = [wk EXCEPT ![w] = AfterSettle(pr[w].err)]
    /\ pr' = [pr EXCEPT ![w] = IdleProcessor]
    /\ UNCHANGED <<payments, rowLock, now, nextId, cl, malformed, tx,
                   hc, log, payments0, changes, lockOrder, sent>>

\* ==================================== PaymentProcessor.ProcessPayment
\* faulty variant: the draw can also give PENDING
ProcessorTargetsWithPending == PaymentStatus

\* the statuses the processor draws from (rand.Float32() < 0.5)
ProcessorTargets == {PaymentStatusFailed, PaymentStatusSuccess}

\* the draw, the sleep, the call of paymentRepo.ProcessPayment (lines 28-41)
ProcessorDecide(p) ==
    /\ pr[p].pc = "choose"
    /\ \E status \in ProcessorTargets :
         /\ pr' = [pr EXCEPT ![p] = [@ EXCEPT !.pc = "repo", !.status = status]]
         /\ tx' = [tx EXCEPT ![p] = [IdleTx EXCEPT !.pc = "lock", !.id = pr[p].paymentID,
                                                   !.newStatus = status]]
    /\ UNCHANGED <<payments, rowLock, now, nextId, cl, queue, unacked, malformed, wk,
                   hc, log, payments0, changes, acked, lockOrder, sent>>

\* faulty variant: the processor drops the repository's error
ProcessorResultSwallowed(err) == NilErr

\* what the processor returns for the repository's error (lines 42-46)
ProcessorResult(err) ==
    IF err # NilErr THEN Wrap(<<"failed", "to", "process", "payment">>, err) ELSE NilErr

\* the repository call has returned
ProcessorReturn(p) ==
    /\ pr[p].pc = "repo"
    /\ tx[p].pc = "done"
    /\ pr' = [pr EXCEPT ![p] =
                 [@ EXCEPT !.pc = "done", !.err = ProcessorResult(tx[p].err)]]
    /\ tx' = [tx EXCEPT ![p] = IdleTx]
    /\ UNCHANGED <<payments, rowLock, now, nextId, cl, queue, unacked, malformed, wk,
                   hc, log, payments0, changes, acked, lockOrder, sent>>

\* ================================ GormPaymentRepository.ProcessPayment
\* faulty variant: the statement locks the whole table
LockAvailableTableLock(id, p) == \A k \in DOMAIN rowLock : rowLock[k] = NoProc

\* faulty variant: a plain SELECT, which does not wait for the row
LockAvailableNoWait(id, p) == TRUE

\* SELECT ... FOR UPDATE waits while another transaction holds the row
LockAvailable(id, p) == rowLock[id] = NoProc

\* faulty variant: the status guard is missing
NotPendingUnguarded(dbPayment) == FALSE

\* faulty variant: the guard refuses a FAILED payment only
NotPendingOnlyFailed(dbPayment) == dbPayment.Status = PaymentStatusFailed

\* faulty variant: the guard knows one terminal status only
NotPendingOnlySuccess(dbPayment) == dbPayment.Status = PaymentStatusSuccess

\* the guard of line 306
NotPending(dbPayment) == dbPayment.Status # PaymentStatusPending

\* faulty variant: the transaction is left open, its lock stays
TxAbortKeepLock(p, err) ==
    /\ tx' = [tx EXCEPT ![p] = [@ EXCEPT !.pc = "done", !.err = err,
                                         !.dbPayment = NilPayment]]
    /\ UNCHANGED rowLock

\* the transaction ends without commit: its lock is released, nothing is written
TxAbort(p, err) ==
    /\ tx' = [tx EXCEPT ![p] = [@ EXCEPT !.pc = "done", !.err = err,
                                         !.dbPayment = NilPayment]]
    /\ rowLock' = [id \in DOMAIN rowLock |-> IF rowLock[id] = p THEN NoProc ELSE rowLock[id]]

\* the lock and the read (lines 295-303)
TxLock(p) ==
    /\ tx[p].pc = "lock"
    /\ \/ /\ TxAbort(p, Wrap(<<"failed", "to", "lock", "payment">>, DbError))
          /\ UNCHANGED lockOrder
       \/ /\ ~RowExists(tx[p].id)
          /\ TxAbort(p, ErrNotFound)
          /\ UNCHANGED lockOrder
       \/ /\ RowExists(tx[p].id)
          /\ LockAvailable(tx[p].id, p)
          /\ rowLock' = [rowLock EXCEPT ![tx[p].id] = p]
          /\ tx' = [tx EXCEPT ![p] = [@ EXCEPT !.pc = "check", !.dbPayment = Row(tx[p].id)]]
          /\ lockOrder' = IF p \in Callers
                          THEN [lockOrder EXCEPT ![tx[p].id] = Append(@, p)]
                          ELSE lockOrder
    /\ UNCHANGED <<payments, now, nextId, cl, queue, unacked, malformed, wk, pr,
                   hc, log, payments0, changes, acked, sent>>

\* the status check and the new field values (lines 305-312)
TxCheck(p) ==
    /\ tx[p].pc = "check"
    /\ \E t \in 1..MaxTime :
         IF NotPending(tx[p].dbPayment)
         THEN /\ TxAbort(p, ErrAlreadyProcessed(tx[p].dbPayment.Status))
              /\ UNCHANGED now
         ELSE /\ ReadsClock(t)
              /\ tx' = [tx EXCEPT ![p] =
                           [@ EXCEPT !.pc = "save",
                                     !.dbPayment = [@ EXCEPT !.Status = tx[p].newStatus,
                                                             !.UpdatedAt = t]]]
              /\ UNCHANGED rowLock
    /\ UNCHANGED <<payments, nextId, cl, queue, unacked, malformed, wk, pr,
                   hc, log, payments0, changes, acked, lockOrder, sent>>

\* tx.Save: the UPDATE inside the transaction (lines 314-316)
TxSave(p) ==
    /\ tx[p].pc = "save"
    /\ \/ /\ TxAbort(p, Wrap(<<"failed", "to", "update", "payment">>, DbError))
          /\ UNCHANGED now
       \/ \E t \in 1..MaxTime :
            /\ ReadsClock(t)
            /\ tx' = [tx EXCEPT ![p] =
                         [@ EXCEPT !.pc = "commit", !.dbPayment = BeforeUpdate(@, t)]]
            /\ UNCHANGED rowLock
    /\ UNCHANGED <<payments, nextId, cl, queue, unacked, malformed, wk, pr,
                   hc, log, payments0, changes, acked, lockOrder, sent>>

\* the table once the transaction's UPDATE is committed
Committed(dbPayment) == {q \in payments : q.ID # dbPayment.ID} \cup {dbPayment}

\* the end of gormDB.Transaction: COMMIT, or a failed COMMIT (lines 292, 318-319)
TxCommit(p) ==
    /\ tx[p].pc = "commit"
    /\ \/ /\ TxAbort(p, DbError)
          /\ UNCHANGED <<payments, changes>>
       \/ /\ payments' = Committed(tx[p].dbPayment)
          /\ changes' = [changes EXCEPT ![tx[p].id] =
                            IF tx[p].dbPayment.Status # StatusOf(tx[p].id)
                            THEN @ + 1 ELSE @]
          /\ rowLock' = [rowLock EXCEPT ![tx[p].id] = NoProc]
          /\ tx' = [tx EXCEPT ![p] = [@ EXCEPT !.pc = "done", !.err = NilErr,
                                               !.dbPayment = NilPayment]]
    /\ UNCHANGED <<now, nextId, cl, queue, unacked, malformed, wk, pr,
                   hc, log, payments0, acked, lockOrder, sent>>

\* ================================================== direct callers (SpecRepo)
\* one returned call, as the log keeps it: the error it returned, the target
\* it asked for, how many calls had returned when it started, and the
\* committed status of the payment when it returned
LogEntry(c, target, err) ==
    [caller |-> c, via |-> hc[c].via, id |-> hc[c].id, target |-> target, err |-> err,
     startLen |-> hc[c].startLen, status |-> StatusOf(hc[c].id)]

\* a caller calls paymentRepo.ProcessPayment(id, newStatus)
CallRepository(c) ==
    /\ hc[c].pc = "idle"
    /\ \E id \in PaymentIDs, newStatus \in PaymentStatus :
         /\ hc' = [hc EXCEPT ![c] = [pc |-> "called", via |-> "repo", id |-> id,
                                     target |-> newStatus, startLen |-> Len(log)]]
         /\ tx' = [tx EXCEPT ![c] = [IdleTx EXCEPT !.pc = "lock", !.id = id,
                                                   !.newStatus = newStatus]]
    /\ UNCHANGED <<payments, rowLock, now, nextId, cl, queue, unacked, malformed, wk, pr,
                   log, payments0, changes, acked, lockOrder, sent>>

RepositoryReturns(c) ==
    /\ hc[c].pc = "called"
    /\ hc[c].via = "repo"
    /\ tx[c].pc = "done"
    /\ log' = Append(log, LogEntry(c, hc[c].target, tx[c].err))
    /\ hc' = [hc EXCEPT ![c] = [@ EXCEPT !.pc = "done"]]
    /\ tx' = [tx EXCEPT ![c] = IdleTx]
    /\ UNCHANGED <<payments, rowLock, now, nextId, cl, queue, unacked, malformed, wk, pr,
                   payments0, changes, acked, lockOrder, sent>>

\* a caller handles a notice: the worker's handler, PaymentProcessor.ProcessPayment(id)
CallProcessor(c) ==
    /\ hc[c].pc = "idle"
    /\ \E id \in PaymentIDs :
         /\ hc' = [hc EXCEPT ![c] = [pc |-> "called", via |-> "processor", id |-> id,
                                     target |-> "", startLen |-> Len(log)]]
         /\ pr' = [pr EXCEPT ![c] = [IdleProcessor EXCEPT !.pc = "choose", !.paymentID = id]]
    /\ UNCHANGED <<payments, rowLock, now, nextId, cl, queue, unacked, malformed, wk, tx,
                   log, payments0, changes, acked, lockOrder, sent>>

ProcessorReturns(c) ==
    /\ hc[c].pc = "called"
    /\ hc[c].via = "processor"
    /\ pr[c].pc = "done"
    /\ log' = Append(log, LogEntry(c, pr[c].status, pr[c].err))
    /\ hc' = [hc EXCEPT ![c] = [@ EXCEPT !.pc = "done", !.target = pr[c].status]]
    /\ pr' = [pr EXCEPT ![c] = IdleProcessor]
    /\ UNCHANGED <<payments, rowLock, now, nextId, cl, queue, unacked, malformed, wk, tx,
                   payments0, changes, acked, lockOrder, sent>>

\* ======================================================== specifications
InitCommon ==
    /\ rowLock = [id \in PaymentIDs |-> NoProc]
    /\ now = 1
    /\ cl = [c \in Clients |-> IdleClient]
    /\ unacked = [w \in Workers |-> << >>]
    /\ malformed = 0
    /\ wk = [w \in Workers |-> IdleWorker]
    /\ pr = [p \in Procs |-> IdleProcessor]
    /\ tx = [p \in Procs |-> IdleTx]
    /\ hc = [c \in Callers |-> IdleCaller]
    /\ log = << >>
    /\ changes = [id \in PaymentIDs |-> 0]
    /\ acked = {}
    /\ lockOrder = [id \in PaymentIDs |-> << >>]
    /\ sent = [c \in Clients |-> << >>]

\* the system starts with an empty table and an empty queue
Init ==
    /\ InitCommon
    /\ payments = {}
    /\ payments0 = {}
    /\ nextId = 1
    /\ queue = << >>

Next ==
    \/ \E c \in Clients : CreatePaymentCall(c)
    \/ \E c \in Clients : CreatePaymentValidate(c)
    \/ \E c \in Clients : CreatePaymentCheckReference(c)
    \/ \E c \in Clients : CreatePaymentInsert(c)
    \/ \E c \in Clients : CreatePaymentPublish(c)
    \/ \E w \in Workers : Deliver(w)
    \/ \E w \in Workers : ConsumeNext(w)
    \/ \E w \in Workers : ProcessorDecide(w)
    \/ \E w \in Workers : TxLock(w)
    \/ \E w \in Workers : TxCheck(w)
    \/ \E w \in Workers : TxSave(w)
    \/ \E w \in Workers : TxCommit(w)
    \/ \E w \in Workers : ProcessorReturn(w)
    \/ \E w \in Workers : Settle(w)

Spec == Init /\ [][Next]_vars

\* the clients that read back the payment they created
Readers == {1}

\* the system with such clients
NextGet == Next \/ \E c \in Readers : GetPayment(c)

SpecGet == Init /\ [][NextGet]_vars

\* the CreatePayment calls alone, the references they were sent with on record
NextTrim ==
    \/ \E c \in Clients : CreatePaymentCallNoted(c)
    \/ \E c \in Clients : CreatePaymentValidate(c)
    \/ \E c \in Clients : CreatePaymentCheckReference(c)
    \/ \E c \in Clients : CreatePaymentInsert(c)
    \/ \E c \in Clients : CreatePaymentPublish(c)

SpecTrim == Init /\ [][NextTrim]_vars

\* the system with a foreign publisher on the queue
NextForeign == Next \/ PublishMalformed

SpecForeign == Init /\ [][NextForeign]_vars

\* a row as CreatePayment and a later transition leave it
StoredRow(id, status) ==
    [ID |-> id, Amount |-> 1, Currency |-> CurrencyUSD, Reference |-> <<"r", ToString(id)>>,
     Status |-> status, CreatedAt |-> 1, UpdatedAt |-> 1]

\* the repository harness starts with any table over PaymentIDs: each
\* identifier absent or present in any status
InitRepo ==
    /\ InitCommon
    /\ \E present \in SUBSET PaymentIDs :
          \E st \in [present -> PaymentStatus] :
             payments = {StoredRow(id, st[id]) : id \in present}
    /\ payments0 = payments
    /\ nextId = NumClients + 1
    /\ queue = << >>

NextRepo ==
    \/ \E c \in Callers : CallRepository(c)
    \/ \E c \in Callers : RepositoryReturns(c)
    \/ \E c \in Callers : CallProcessor(c)
    \/ \E c \in Callers : ProcessorReturns(c)
    \/ \E c \in Callers : ProcessorDecide(c)
    \/ \E c \in Callers : ProcessorReturn(c)
    \/ \E c \in Callers : TxLock(c)
    \/ \E c \in Callers : TxCheck(c)
    \/ \E c \in Callers : TxSave(c)
    \/ \E c \in Callers : TxCommit(c)

SpecRepo == InitRepo /\ [][NextRepo]_vars

\* concurrent calls of the repository's ProcessPayment alone, each running
\* on: a call goes on with the step it is at, and a call that waits for a row
\* lock gets it once the lock stays free. No fairness is put on the failures
\* of the database.
NextRepoFair ==
    \/ \E c \in Callers : CallRepository(c)
    \/ \E c \in Callers : RepositoryReturns(c)
    \/ \E c \in Callers : TxLock(c)
    \/ \E c \in Callers : TxCheck(c)
    \/ \E c \in Callers : TxSave(c)
    \/ \E c \in Callers : TxCommit(c)

CallsFair ==
    \A c \in Callers :
       /\ WF_vars(TxLock(c) /\ ~Contains(tx'[c].err, DbError))
       /\ WF_vars(TxCheck(c))
       /\ WF_vars(TxSave(c))
       /\ WF_vars(TxCommit(c))
       /\ WF_vars(RepositoryReturns(c))

SpecRepoFair == InitRepo /\ [][NextRepoFair]_vars /\ CallsFair

\* a delivery's body decodes; the identifier it carries
Decodable(delivery) == Unmarshal(delivery.Body).ok

NoticeId(delivery) == Unmarshal(delivery.Body).msg.PaymentID

\* a notice as PublishPaymentMessage leaves it on the queue
Notice(id) ==
    [Body |-> Marshal([PaymentID |-> id, Timestamp |-> 1]), Redelivered |-> FALSE]

\* the queues the workers may find: up to MaxNotices notices, each for an
\* identifier of PaymentIDs
NoticeQueues ==
    UNION {[1..n -> {Notice(id) : id \in PaymentIDs}] : n \in 0..MaxNotices}

\* the workers start on any table over PaymentIDs and any queue of notices:
\* notices of PENDING rows (CreatePayment published them), notices of rows
\* already processed (duplicates of the channel) and notices whose identifier
\* has no row (another publisher)
InitWorker ==
    /\ InitCommon
    /\ \E present \in SUBSET PaymentIDs :
          \E st \in [present -> PaymentStatus] :
             payments = {StoredRow(id, st[id]) : id \in present}
    /\ payments0 = payments
    /\ nextId = NumClients + 1
    /\ queue \in NoticeQueues

NextWorker ==
    \/ PublishMalformed
    \/ \E w \in Workers : Deliver(w)
    \/ \E w \in Workers : ConsumeNext(w)
    \/ \E w \in Workers : ProcessorDecide(w)
    \/ \E w \in Workers : TxLock(w)
    \/ \E w \in Workers : TxCheck(w)
    \/ \E w \in Workers : TxSave(w)
    \/ \E w \in Workers : TxCommit(w)
    \/ \E w \in Workers : ProcessorReturn(w)
    \/ \E w \in Workers : Settle(w)
    \/ \E w \in Workers : Stop(w)

SpecWorker == InitWorker /\ [][NextWorker]_vars

\* ---------------------------------------------------- the workers, fairly
\* the workers that may stop for good; the others keep running
Stoppable == {1}

\* the store is left by CreatePayment calls that have returned: rows in
\* PENDING, and on the queue the notices of the calls whose publish succeeded,
\* in any order
InitLive ==
    /\ InitCommon
    /\ \E created \in SUBSET PaymentIDs :
          /\ payments = {StoredRow(id, PaymentStatusPending) : id \in created}
          /\ queue \in {q \in NoticeQueues :
                          /\ \A i \in 1..Len(q) : NoticeId(q[i]) \in created
                          /\ \A i, j \in 1..Len(q) : q[i] = q[j] => i = j}
    /\ payments0 = payments
    /\ nextId = NumClients + 1

NextLive ==
    \/ \E w \in Workers : Deliver(w)
    \/ \E w \in Workers : ConsumeNext(w)
    \/ \E w \in Workers : ProcessorDecide(w)
    \/ \E w \in Workers : TxLock(w)
    \/ \E w \in Workers : TxCheck(w)
    \/ \E w \in Workers : TxSave(w)
    \/ \E w \in Workers : TxCommit(w)
    \/ \E w \in Workers : ProcessorReturn(w)
    \/ \E w \in Workers : Settle(w)
    \/ \E w \in Stoppable : Stop(w)

\* each worker goes on with the step it is at (weak fairness of the workers
\* and of the broker's push to a consumer with room)
WorkersFair ==
    \A w \in Workers :
       /\ WF_vars(Deliver(w))
       /\ WF_vars(ConsumeNext(w))
       /\ WF_vars(ProcessorDecide(w))
       /\ WF_vars(TxLock(w))
       /\ WF_vars(TxCheck(w))
       /\ WF_vars(TxSave(w))
       /\ WF_vars(TxCommit(w))
       /\ WF_vars(ProcessorReturn(w))
       /\ WF_vars(Settle(w))

\* the store is eventually available: a statement that is tried again and
\* again does not fail every time
StoreEventuallyAvailable ==
    \A w \in Workers :
       /\ SF_vars(TxLock(w) /\ tx'[w].pc = "check")
       /\ SF_vars(TxSave(w) /\ tx'[w].pc = "commit")
       /\ SF_vars(TxCommit(w) /\ tx'[w].err = NilErr)

SpecLive == InitLive /\ [][NextLive]_vars /\ WorkersFair /\ StoreEventuallyAvailable

\* ================================================================ claims
StatusIn(rows, id) ==
    IF \E p \in rows : p.ID = id THEN (CHOOSE p \in rows : p.ID = id).Status ELSE ""

TerminalStatuses == {PaymentStatusSuccess, PaymentStatusFailed}

\* the error reports a failure of the database itself
StoreFailure(err) == Contains(err, DbError)

AlreadyProcessed(err) == Contains(err, <<"payment", "already", "processed">>)

\* positions of the log that hold a call on id
CallsOn(id) == {i \in 1..Len(log) : log[i].id = id}

\* every caller that called on id has returned
AllReturned(id) == \A c \in Callers : hc[c].id = id => hc[c].pc = "done"

\* C1: the status of a payment changes only from PENDING to SUCCESS or to
\* FAILED; a row in SUCCESS or FAILED keeps its status through every step,
\* whatever calls of ProcessPayment are made, with whatever target.
C1_StatusMonotone ==
    [][\A id \in PaymentIDs :
          StatusIn(payments, id) # "" =>
             \/ StatusIn(payments', id) = StatusIn(payments, id)
             \/ /\ StatusIn(payments, id) = PaymentStatusPending
                /\ StatusIn(payments', id) \in TerminalStatuses]_vars

\* a call that succeeded, then a call with another target on the same payment
\* that was refused and left the status
C1_Witness ==
    \E i, j \in 1..Len(log) :
       /\ i < j
       /\ log[i].id = log[j].id
       /\ log[i].err = NilErr
       /\ log[i].target \in TerminalStatuses
       /\ AlreadyProcessed(log[j].err)
       /\ log[j].target # log[i].target
       /\ log[j].status = log[i].target
       /\ StatusOf(log[i].id) = log[i].target

\* C2: K concurrent calls of the repository's ProcessPayment on one existing
\* PENDING payment, each with a terminal target and none meeting a failure of
\* the database: whatever the interleaving, once all have returned exactly one
\* returned nil and the K-1 others the already-processed error.
C2_OneWinner ==
    \A id \in PaymentIDs :
       ( /\ StatusIn(payments0, id) = PaymentStatusPending
         /\ AllReturned(id)
         /\ \A i \in CallsOn(id) : /\ log[i].via = "repo"
                                   /\ log[i].target \in TerminalStatuses
                                   /\ ~StoreFailure(log[i].err) )
       => \/ CallsOn(id) = {}
          \/ /\ Cardinality({i \in CallsOn(id) : log[i].err = NilErr}) = 1
             /\ \A i \in CallsOn(id) :
                   log[i].err # NilErr =>
                      \E st \in TerminalStatuses : log[i].err = ErrAlreadyProcessed(st)

\* all callers called on the same PENDING payment, each before any had
\* returned, and all have returned
C2_Witness ==
    \E id \in PaymentIDs :
       /\ StatusIn(payments0, id) = PaymentStatusPending
       /\ Len(log) = NumCallers
       /\ \A i \in 1..Len(log) : /\ log[i].id = id
                                 /\ log[i].via = "repo"
                                 /\ log[i].target \in TerminalStatuses
                                 /\ log[i].startLen = 0
                                 /\ ~StoreFailure(log[i].err)
       /\ Cardinality({i \in 1..Len(log) : log[i].err = NilErr}) = 1

\* C3: the notice of one PENDING payment handled N times by
\* PaymentProcessor.ProcessPayment, one after the other or at once, with no
\* failure of the database: the status changes exactly once, one handling
\* returns nil and the N-1 others end with the already-processed error.
C3_IdempotentHandling ==
    \A id \in PaymentIDs :
       ( /\ StatusIn(payments0, id) = PaymentStatusPending
         /\ AllReturned(id)
         /\ CallsOn(id) # {}
         /\ \A i \in CallsOn(id) : /\ log[i].via = "processor"
                                   /\ ~StoreFailure(log[i].err) )
       => /\ changes[id] = 1
          /\ Cardinality({i \in CallsOn(id) : log[i].err = NilErr}) = 1
          /\ \A i \in CallsOn(id) : log[i].err # NilErr => AlreadyProcessed(log[i].err)
          /\ \E i \in CallsOn(id) : log[i].err = NilErr /\ StatusOf(id) = log[i].target

\* the notice was handled by every caller; the second handling started after
\* the first had returned
C3_Witness ==
    \E id \in PaymentIDs :
       /\ StatusIn(payments0, id) = PaymentStatusPending
       /\ Len(log) = NumCallers
       /\ \A i \in 1..Len(log) : /\ log[i].id = id
                                 /\ log[i].via = "processor"
                                 /\ ~StoreFailure(log[i].err)
       /\ log[2].startLen >= 1
       /\ AlreadyProcessed(log[2].err)
       /\ changes[id] = 1

\* two calls of paymentRepo.ProcessPayment on id, the second started after
\* the first returned, no other call on id, no failure of the database; the
\* first target is drawn from firstTargets
TwoSuccessiveCalls(id, i, j, firstTargets) ==
    /\ StatusIn(payments0, id) = PaymentStatusPending
    /\ AllReturned(id)
    /\ CallsOn(id) = {i, j}
    /\ i < j
    /\ log[j].startLen >= i
    /\ log[i].via = "repo" /\ log[j].via = "repo"
    /\ ~StoreFailure(log[i].err) /\ ~StoreFailure(log[j].err)
    /\ log[i].target \in firstTargets

FirstSucceedsSecondRefused(id, i, j) ==
    /\ log[i].err = NilErr
    /\ log[i].status = log[i].target
    /\ log[i].status # PaymentStatusPending
    /\ log[j].err = ErrAlreadyProcessed(log[i].status)
    /\ log[j].status = log[i].status
    /\ StatusOf(id) = log[i].status

\* C4 as stated: for every pair of target statuses (t1, t2), PENDING included,
\* the first of two successive calls succeeds and changes the status, the
\* second fails with the already-processed error and leaves the status.
C4_AnyTargets ==
    \A id \in PaymentIDs : \A i, j \in 1..Len(log) :
       TwoSuccessiveCalls(id, i, j, PaymentStatus) => FirstSucceedsSecondRefused(id, i, j)

\* C4 amended: the same for every first target that is SUCCESS or FAILED and
\* every second target (PENDING included).
C4_TerminalFirstTarget ==
    \A id \in PaymentIDs : \A i, j \in 1..Len(log) :
       TwoSuccessiveCalls(id, i, j, TerminalStatuses) => FirstSucceedsSecondRefused(id, i, j)

\* two such calls, the second with a target other than the first's
C4_Witness ==
    \E id \in PaymentIDs : \E i, j \in 1..Len(log) :
       /\ TwoSuccessiveCalls(id, i, j, TerminalStatuses)
       /\ log[j].target # log[i].target
       /\ log[j].err # NilErr

\* ------------------------------------------------- claims on CreatePayment
\* the call got as far as building the entity: it passed the pre-check
PassedPreCheck(c) == cl[c].payment.ID # NilUUID

\* paymentRepo.Create returned nil for the call: the timestamps were copied back
Inserted(c) == cl[c].payment.CreatedAt # ZeroTime

\* the conflict outcome: the message the HTTP adapter maps to 409
IsConflict(err) == Contains(err, <<"already", "exists">>)

IsCreatedButNotQueued(err) ==
    Contains(err, <<"payment", "created", "but", "failed", "to", "publish", "message">>)

RowsWithReference(reference) == {p \in payments : p.Reference = reference}

\* C5: the table never holds two rows with the same reference, whatever the
\* interleaving of the CreatePayment calls.
C5_ReferenceUnique ==
    \A p, q \in payments : p.Reference = q.Reference => p = q

\* two calls with one reference both passed the pre-check; one inserted, the
\* other's insert was refused
C5_Witness ==
    \E c, d \in Clients :
       /\ c # d
       /\ PassedPreCheck(c) /\ PassedPreCheck(d)
       /\ cl[c].req.Reference = cl[d].req.Reference
       /\ Inserted(c)
       /\ cl[d].pc = "done" /\ Contains(cl[d].err, UniqueViolation)
       /\ Cardinality(RowsWithReference(cl[c].req.Reference)) = 1

\* C6: when two calls with one reference both pass the pre-check, one insert
\* succeeds and the losing call reports the conflict error, creates no row
\* and publishes no notice.
C6_RaceLoserConflict ==
    \A c, d \in Clients :
       ( /\ c # d
         /\ PassedPreCheck(c) /\ PassedPreCheck(d)
         /\ cl[c].req.Reference = cl[d].req.Reference
         /\ Inserted(c)
         /\ cl[d].pc = "done"
         /\ ~StoreFailure(cl[d].err) )
       => /\ IsConflict(cl[d].err)
          /\ ~RowExists(cl[d].payment.ID)
          /\ Cardinality(RowsWithReference(cl[c].req.Reference)) = 1
          /\ cl[d].published = << >>

\* C7: the step of CreatePayment that checks the reference, taken while a row
\* with the reference exists and the query does not fail, ends the call with
\* "reference already exists", and leaves the table and the queue as they were;
\* the call has published nothing.
C7_ExistingReferenceConflict ==
    [][\A c \in Clients :
          ( /\ cl[c].pc = "refcheck"
            /\ cl'[c].pc # "refcheck"
            /\ RowsWithReference(cl[c].req.Reference) # {}
            /\ ~StoreFailure(cl'[c].err) )
          => /\ cl'[c].pc = "done"
             /\ cl'[c].err = ErrRefExists
             /\ payments' = payments
             /\ Cardinality(RowsWithReference(cl[c].req.Reference)) = 1
             /\ queue' = queue
             /\ cl'[c].published = << >>]_vars

\* a creation completed, then a second call with the same reference was refused
C7_Witness ==
    \E c, d \in Clients :
       /\ c # d
       /\ cl[c].pc = "done" /\ cl[c].err = NilErr
       /\ cl[d].pc = "done" /\ cl[d].err = ErrRefExists
       /\ cl[d].req.Reference = cl[c].req.Reference
       /\ ~PassedPreCheck(d)
       /\ Cardinality(RowsWithReference(cl[c].req.Reference)) = 1

\* C8: a CreatePayment call whose request passes the validations goes on to
\* the pre-check; with the reference absent and no failure it goes on to the
\* insert with an entity in PENDING; and the insert, with the reference still
\* absent and no failure, adds exactly one row, equal to the request, with
\* status PENDING.
C8_ValidCreateAddsOnePending ==
    [][\A c \in Clients :
          /\ ( /\ cl[c].pc = "validate" /\ cl'[c].pc # "validate"
               /\ cl'[c].req.Amount > 0
               /\ cl'[c].req.Currency \in {CurrencyETB, CurrencyUSD}
               /\ TrimSpace(cl'[c].req.Reference) # << >> )
             => cl'[c].pc = "refcheck" /\ payments' = payments
          /\ ( /\ cl[c].pc = "refcheck" /\ cl'[c].pc # "refcheck"
               /\ RowsWithReference(cl[c].req.Reference) = {}
               /\ ~StoreFailure(cl'[c].err) )
             => cl'[c].pc = "create" /\ payments' = payments
          /\ ( /\ cl[c].pc = "create" /\ cl'[c].pc # "create"
               /\ RowsWithReference(cl[c].req.Reference) = {}
               /\ ~StoreFailure(cl'[c].err) )
             => /\ cl'[c].pc = "publish"
                /\ \E p \in payments' :
                      /\ p \notin payments
                      /\ payments' = payments \cup {p}
                      /\ p.ID = cl[c].payment.ID
                      /\ p.Status = PaymentStatusPending
                      /\ p.Amount = cl[c].req.Amount
                      /\ p.Currency = cl[c].req.Currency
                      /\ p.Reference = cl[c].req.Reference
          /\ ( cl[c].pc = "publish" /\ cl'[c].pc # "publish" ) => payments' = payments]_vars

\* a call has just inserted its row
C8_Witness ==
    \E c \in Clients :
       /\ cl[c].pc = "publish"
       /\ RowExists(cl[c].payment.ID)
       /\ Row(cl[c].payment.ID).Status = PaymentStatusPending
       /\ Cardinality(payments) = 1

\* C9: a CreatePayment call that returned nil has published exactly one
\* notice, and the notice carries the identifier of the row the call
\* inserted; a call that has not reached the publish, or that failed in the
\* validation, the reference check or the insert, has published none.
C9_OneNoticePerSuccess ==
    \A c \in Clients :
       /\ (cl[c].pc = "done" /\ cl[c].err = NilErr)
             => /\ Len(cl[c].published) = 1
                /\ Unmarshal(cl[c].published[1]).ok
                /\ Unmarshal(cl[c].published[1]).msg.PaymentID = cl[c].resp.ID
                /\ cl[c].resp.ID = cl[c].payment.ID
                /\ Inserted(c)
                /\ RowExists(cl[c].resp.ID)
       /\ (cl[c].pc # "done" \/ ~Inserted(c)) => cl[c].published = << >>

\* a call returned its response
C9_Witness ==
    \E c \in Clients :
       /\ cl[c].pc = "done" /\ cl[c].err = NilErr
       /\ cl[c].resp.ID # NilUUID
       /\ Len(cl[c].published) = 1

FirstFailure(req) ==
    IF req.Amount <= 0 THEN ErrAmount
    ELSE IF req.Currency \notin {CurrencyETB, CurrencyUSD} THEN ErrCurrency
    ELSE IF TrimSpace(req.Reference) = << >> THEN ErrReference
    ELSE NilErr

\* C11: the validation step of CreatePayment, taken on a request as it was
\* sent, ends the call with the first failure in the order amount, currency,
\* reference (amount <= 0 whatever the currency and the reference, a currency
\* outside {ETB, USD} whatever the reference, a reference empty once trimmed);
\* the call ends there: it never reaches the reference query or the insert,
\* the table and the queue are as they were and nothing is published.
C11_ValidationOrder ==
    [][\A c \in Clients :
          ( /\ cl[c].pc = "validate" /\ cl'[c].pc # "validate"
            /\ FirstFailure(cl[c].req) # NilErr )
          => /\ cl'[c].pc = "done"
             /\ cl'[c].err = FirstFailure(cl[c].req)
             /\ cl'[c].payment = NilPayment
             /\ cl'[c].published = << >>
             /\ payments' = payments
             /\ nextId' = nextId
             /\ queue' = queue]_vars

\* one call was rejected for its amount although its currency and reference
\* are invalid too, another for its currency although its reference is blank
C11_Witness ==
    \E c, d \in Clients :
       /\ cl[c].pc = "done" /\ cl[c].err = ErrAmount
       /\ cl[c].req.Currency = "EUR" /\ TrimSpace(cl[c].req.Reference) = << >>
       /\ cl[d].pc = "done" /\ cl[d].err = ErrCurrency
       /\ cl[d].req.Amount > 0 /\ cl[d].req.Reference = <<" ">>
       /\ payments = {} /\ queue = << >>

\* ------------------------------------------------ claims on the consumer loop
\* the deliveries of notices of id that the channel holds: ready on the queue
\* or pushed to a consumer and not settled
InChannel(id) ==
    Cardinality({i \in 1..Len(queue) : Decodable(queue[i]) /\ NoticeId(queue[i]) = id})
    + Cardinality({x \in {<<w, i>> : w \in Workers, i \in 1..MaxNotices} :
                     /\ x[2] <= Len(unacked[x[1]])
                     /\ Decodable(unacked[x[1]][x[2]])
                     /\ NoticeId(unacked[x[1]][x[2]]) = id})

\* the step acknowledges the delivery worker w is handling: the delivery is
\* settled and is not put back on the queue
AckStep(w) ==
    /\ unacked[w] # << >>
    /\ unacked'[w] = Tail(unacked[w])
    /\ queue' = queue

\* the step rejects the delivery worker w is handling with requeue: it is
\* settled and is back at the head of the queue, marked redelivered
NackStep(w) ==
    /\ unacked[w] # << >>
    /\ unacked'[w] = Tail(unacked[w])
    /\ queue' = <<[Head(unacked[w]) EXCEPT !.Redelivered = TRUE]>> \o queue

\* C12: at every ack of a notice that carries the identifier of an existing
\* payment, the committed status of the payment is SUCCESS or FAILED, before
\* and after the step; workers may stop at any point.
C12_AckOnlyAfterCommit ==
    [][\A w \in Workers :
          ( /\ AckStep(w)
            /\ Decodable(Head(unacked[w]))
            /\ RowExists(NoticeId(Head(unacked[w]))) )
          => /\ StatusOf(NoticeId(Head(unacked[w]))) \in TerminalStatuses
             /\ StatusIn(payments', NoticeId(Head(unacked[w]))) \in TerminalStatuses]_vars

\* the notice of a payment that was PENDING when the workers started was
\* acknowledged by a handling that returned nil; the transition is committed
\* and no delivery of the notice is left in the channel
C12_Witness ==
    \E id \in PaymentIDs :
       /\ StatusIn(payments0, id) = PaymentStatusPending
       /\ changes[id] = 1
       /\ StatusOf(id) \in TerminalStatuses
       /\ [body |-> Notice(id).Body, err |-> NilErr] \in acked
       /\ InChannel(id) = 0

\* C13: with the workers fair, the store eventually available and rejected
\* or abandoned deliveries requeued, every payment in PENDING whose notice is
\* in the channel is eventually in SUCCESS or FAILED, and stays there; over
\* the whole run its status is changed by exactly one commit. One of the
\* workers may stop for good at any point.
C13_EventuallyProcessedOnce ==
    \A id \in PaymentIDs :
       /\ (StatusOf(id) = PaymentStatusPending /\ InChannel(id) > 0)
             ~> [](StatusOf(id) \in TerminalStatuses /\ changes[id] = 1)
       /\ [](changes[id] <= 1)

\* every payment was processed once and its notice acknowledged, although a
\* worker stopped: one notice was handled a second time and absorbed
C13_Witness ==
    /\ wk[1].pc = "stopped"
    /\ payments0 # {}
    /\ \A p \in payments0 :
          /\ StatusOf(p.ID) \in TerminalStatuses
          /\ changes[p.ID] = 1
          /\ InChannel(p.ID) = 0
    /\ \E x \in acked : AlreadyProcessed(x.err)

\* the step in which the loop of worker w settles the delivery its handler
\* has returned for and goes back to the range
SettleStep(w) ==
    /\ wk[w].pc = "handler"
    /\ pr[w].pc = "done"
    /\ wk'[w].pc = "range"

\* C14: when the handler has returned nil (the transition is committed) or
\* the already-processed error, the loop acknowledges the delivery: it is
\* settled, it is not put back on the queue, and the channel holds one
\* delivery of the notice less.
C14_AckOnProcessed ==
    [][\A w \in Workers : \A id \in PaymentIDs :
          ( /\ SettleStep(w)
            /\ wk[w].paymentMsg.PaymentID = id
            /\ pr[w].err = NilErr \/ AlreadyProcessed(pr[w].err) )
          => /\ AckStep(w)
             /\ InChannel(id)' = InChannel(id) - 1
             /\ [body |-> Head(unacked[w]).Body, err |-> pr[w].err] \in acked']_vars

\* the notice of a payment that was SUCCESS or FAILED when the workers
\* started was acknowledged with the already-processed outcome and is gone
C14_Witness ==
    \E id \in PaymentIDs :
       /\ StatusIn(payments0, id) \in TerminalStatuses
       /\ [body |-> Notice(id).Body,
           err |-> ProcessorResult(ErrAlreadyProcessed(StatusIn(payments0, id)))] \in acked
       /\ InChannel(id) = 0
       /\ StatusOf(id) = StatusIn(payments0, id)

\* worker w, handling a notice of id, takes a step of its own and does not stop
HandlingStep(w, id) ==
    /\ wk[w].pc = "handler"
    /\ wk[w].paymentMsg.PaymentID = id
    /\ <<wk[w], pr[w], tx[w]>>' # <<wk[w], pr[w], tx[w]>>
    /\ wk'[w].pc # "stopped"

NotFound(err) == Contains(err, ErrNotFound)

\* C15: while a worker handles a notice whose identifier has no row, none
\* of its steps creates or changes a row; the lock statement, unless the
\* database fails, ends the transaction with "payment not found"; the
\* processor returns that error wrapped; and the loop then acknowledges the
\* delivery: it is not requeued and the channel holds one delivery of the
\* notice less.
C15_UnknownIdDropped ==
    [][\A w \in Workers : \A id \in PaymentIDs :
          (HandlingStep(w, id) /\ ~RowExists(id))
          => /\ payments' = payments
             /\ (tx[w].pc = "lock" /\ ~StoreFailure(tx'[w].err))
                   => (tx'[w].pc = "done" /\ tx'[w].err = ErrNotFound)
             /\ (pr[w].pc = "repo" /\ pr'[w].pc = "done" /\ tx[w].err = ErrNotFound)
                   => NotFound(pr'[w].err)
             /\ (SettleStep(w) /\ NotFound(pr[w].err))
                   => /\ AckStep(w)
                      /\ InChannel(id)' = InChannel(id) - 1
                      /\ \A i \in 1..Len(queue') : queue'[i].Redelivered => queue'[i] \in
                            {queue[j] : j \in 1..Len(queue)}]_vars

\* the notice of an identifier without a row was acknowledged with the
\* not-found outcome; it is gone and the table is as it was
C15_Witness ==
    \E id \in PaymentIDs :
       /\ ~RowExists(id)
       /\ [body |-> Notice(id).Body, err |-> ProcessorResult(ErrNotFound)] \in acked
       /\ InChannel(id) = 0
       /\ payments = payments0

\* no worker has stopped: every redelivered delivery comes from a nack
NoWorkerStopped == \A w \in Workers : wk[w].pc # "stopped"

\* C16: when the repository's transaction ends with a failure of the store
\* (at the lock, at the update or at the commit), the table is unchanged and
\* the processor returns the failure wrapped, an error that is neither
\* not-found nor already-processed; the loop then rejects the delivery with
\* requeue: nothing is acknowledged in that step and the delivery, marked
\* redelivered, is at the head of the queue for any consumer.
C16_TransientRequeued ==
    [][\A w \in Workers : \A id \in PaymentIDs :
          HandlingStep(w, id)
          => /\ (tx[w].pc # "done" /\ tx'[w].pc = "done" /\ StoreFailure(tx'[w].err))
                   => payments' = payments
             /\ (pr[w].pc = "repo" /\ pr'[w].pc = "done" /\ StoreFailure(tx[w].err))
                   => /\ StoreFailure(pr'[w].err)
                      /\ ~NotFound(pr'[w].err)
                      /\ ~AlreadyProcessed(pr'[w].err)
             /\ (SettleStep(w) /\ pr[w].err # NilErr
                    /\ ~NotFound(pr[w].err) /\ ~AlreadyProcessed(pr[w].err))
                   => /\ NackStep(w)
                      /\ ~AckStep(w)
                      /\ acked' = acked
                      /\ InChannel(id)' = InChannel(id)
                      /\ Head(queue') = [Body |-> Notice(id).Body, Redelivered |-> TRUE]]_vars

\* no worker has stopped; the notice of a PENDING payment was rejected after
\* a store failure and is back on the queue, marked redelivered, and no
\* delivery of it was acknowledged
C16_Witness ==
    \E id \in PaymentIDs :
       /\ NoWorkerStopped
       /\ StatusOf(id) = PaymentStatusPending
       /\ queue # << >>
       /\ Head(queue) = [Body |-> Notice(id).Body, Redelivered |-> TRUE]
       /\ \A x \in acked : x.body # Notice(id).Body
       /\ \A w \in Workers : unacked[w] = << >>

\* C17: the loop, taking a delivery whose body does not decode, rejects it
\* with requeue when it is delivered for the first time and acknowledges it,
\* so that it is dropped, when it is a redelivery.
C17_MalformedDroppedOnRepeat ==
    [][\A w \in Workers :
          ( /\ wk[w].pc = "range"
            /\ unacked[w] # << >>
            /\ ~Decodable(Head(unacked[w]))
            /\ unacked'[w] # unacked[w]
            /\ wk'[w].pc # "stopped" )
          => IF Head(unacked[w]).Redelivered
             THEN AckStep(w) /\ Head(unacked[w]) \notin {queue'[i] : i \in 1..Len(queue')}
             ELSE NackStep(w)]_vars

\* worker w stops in this step
StopStep(w) == wk[w].pc # "stopped" /\ wk'[w].pc = "stopped"

\* C18: (a) when a worker stops with a delivery in flight, wherever its
\* handler is (before the commit or after it), the step writes nothing, frees
\* the row lock the worker held, and leaves the delivery at the head of the
\* queue, marked redelivered; (b) no step changes a status that is SUCCESS or
\* FAILED; (c) the handling of a redelivered notice, once it returns without
\* a store failure, has the payment in SUCCESS or FAILED: it returned nil,
\* having processed the PENDING payment, or the already-processed error, and
\* either way the loop acknowledges the delivery.
C18_StopRedelivers ==
    [][\A w \in Workers : \A id \in PaymentIDs :
          /\ (StopStep(w) /\ unacked[w] # << >>)
                => /\ payments' = payments
                   /\ \A k \in PaymentIDs : rowLock'[k] # w
                   /\ Len(queue') = Len(queue) + Len(unacked[w])
                   /\ \A i \in 1..Len(unacked[w]) :
                         queue'[i] = [unacked[w][i] EXCEPT !.Redelivered = TRUE]
                   /\ InChannel(id)' = InChannel(id)
          /\ StatusOf(id) \in TerminalStatuses => StatusIn(payments', id) = StatusOf(id)
          /\ ( /\ SettleStep(w)
               /\ wk[w].paymentMsg.PaymentID = id
               /\ Head(unacked[w]).Redelivered
               /\ RowExists(id)
               /\ ~StoreFailure(pr[w].err) )
                => /\ StatusOf(id) \in TerminalStatuses
                   /\ pr[w].err = NilErr \/ AlreadyProcessed(pr[w].err)
                   /\ pr[w].err = NilErr => StatusOf(id) = pr[w].status
                   /\ AckStep(w)
                   /\ changes[id] <= 1]_vars

\* a worker committed the transition of a PENDING payment and stopped before
\* its ack (no delivery of the notice was acknowledged with nil); the notice
\* was redelivered, ended as already processed and was acknowledged; the
\* status is the committed one
C18_Witness ==
    \E id \in PaymentIDs :
       /\ StatusIn(payments0, id) = PaymentStatusPending
       /\ \E w \in Workers : wk[w].pc = "stopped"
       /\ changes[id] = 1
       /\ StatusOf(id) \in TerminalStatuses
       /\ [body |-> Notice(id).Body, err |-> NilErr] \notin acked
       /\ [body |-> Notice(id).Body,
           err |-> ProcessorResult(ErrAlreadyProcessed(StatusOf(id)))] \in acked
       /\ InChannel(id) = 0

\* C19: whatever a delivery is (undecodable, of an unknown identifier, of a
\* payment already processed, or met by a store failure), the step in which
\* a worker's loop settles it is an ack or a nack with requeue and leaves
\* the loop at its range, ready for the next delivery; a loop is never
\* anywhere but at the range or in its handler unless the process is stopped
\* from outside, and a returned handler can always be settled.
C19_LoopGoesOn ==
    [][\A w \in Workers :
          /\ ( /\ unacked[w] # << >>
               /\ unacked'[w] = Tail(unacked[w])
               /\ ~StopStep(w) )
                => /\ wk'[w].pc = "range"
                   /\ AckStep(w) \/ NackStep(w)
          /\ (wk[w].pc = "handler" /\ pr[w].pc = "done") => ENABLED Settle(w)
          /\ (wk[w].pc = "range" /\ unacked[w] # << >>) => ENABLED ConsumeNext(w)
          /\ ~StopStep(w) => wk'[w].pc \in {"range", "handler", wk[w].pc}
          /\ wk[w].pc \in {"range", "handler", "stopped"}]_vars

\* no worker has stopped; an undecodable body was rejected and is on the
\* queue again; a notice was acknowledged with a not-found or an
\* already-processed error; a notice was rejected after a store failure, and
\* a loop is handling its redelivery
C19_Witness ==
    /\ NoWorkerStopped
    /\ \E i \in 1..Len(queue) : ~Decodable(queue[i]) /\ queue[i].Redelivered
    /\ \E x \in acked : NotFound(x.err) \/ AlreadyProcessed(x.err)
    /\ \E w \in Workers :
          /\ wk[w].pc = "handler"
          /\ Head(unacked[w]).Redelivered

\* C20: in every state each consumer has at most one delivery pushed to it
\* and not settled; a loop in its handler is handling exactly that delivery,
\* and a loop that is not in its handler has no processor call and no
\* transaction open and holds no row lock: the handling of one delivery has
\* ended, with its ack or nack, before the next begins.
C20_OneInFlight ==
    \A w \in Workers :
       /\ Len(unacked[w]) <= 1
       /\ wk[w].pc = "handler"
             => /\ Len(unacked[w]) = 1
                /\ Decodable(Head(unacked[w]))
                /\ NoticeId(Head(unacked[w])) = wk[w].paymentMsg.PaymentID
                /\ pr[w].pc # "idle"
                /\ pr[w].paymentID = wk[w].paymentMsg.PaymentID
       /\ wk[w].pc # "handler"
             => /\ pr[w] = IdleProcessor
                /\ tx[w] = IdleTx
                /\ \A id \in PaymentIDs : rowLock[id] # w

\* every consumer is handling its one delivery while another delivery waits
\* on the queue
C20_Witness ==
    /\ queue # << >>
    /\ \A w \in Workers :
          /\ wk[w].pc = "handler"
          /\ Len(unacked[w]) = 1
          /\ tx[w].pc # "idle"

\* ---------------------------------------------- claims on the row lock
\* C21: while a caller holds the row lock of one payment, the transaction
\* of another caller on a different payment is never held up by it: its lock
\* statement can succeed whenever the lock of its own row is free, and its
\* check, its update and its commit can each be taken and succeed.
C21_OtherRowNotBlocked ==
    \A p, q \in Callers : \A A, B \in PaymentIDs :
       ( /\ p # q /\ A # B
         /\ rowLock[A] = p
         /\ tx[q].id = B
         /\ RowExists(B) )
       => /\ (tx[q].pc = "lock" /\ rowLock[B] = NoProc)
                => ENABLED (TxLock(q) /\ tx'[q].pc = "check")
          /\ tx[q].pc = "check" => ENABLED TxCheck(q)
          /\ tx[q].pc = "save" => ENABLED (TxSave(q) /\ tx'[q].pc = "commit")
          /\ tx[q].pc = "commit" => ENABLED (TxCommit(q) /\ tx'[q].err = NilErr)

\* two callers hold the locks of two payments at once, and the one has
\* reached its commit while the other is still at its check
C21_Witness ==
    \E p, q \in Callers : \E A, B \in PaymentIDs :
       /\ p # q /\ A # B
       /\ rowLock[A] = p /\ tx[p].pc = "check"
       /\ rowLock[B] = q /\ tx[q].pc = "commit"

\* ------------------------------------- claims on the conditional transition
\* caller c, in its direct call of the repository on id, takes a step
RepoCallStep(c, id) ==
    /\ hc[c].pc = "called"
    /\ hc[c].via = "repo"
    /\ hc[c].id = id
    /\ <<hc[c], tx[c]>>' # <<hc[c], tx[c]>>

\* C22: a call ProcessPayment(id, s), for any s, on an identifier without a
\* row: its lock statement ends the transaction, with the error "payment not
\* found" unless the database itself fails; that error is what the call
\* returns; and no step of the call changes the table: no row is created and
\* none is modified.
C22_NotFoundLeavesStore ==
    [][\A c \in Callers : \A id \in PaymentIDs :
          (RepoCallStep(c, id) /\ ~RowExists(id))
          => /\ payments' = payments
             /\ tx[c].pc = "lock"
                   => /\ tx'[c].pc = "done"
                      /\ \/ tx'[c].err = <<"payment", "not", "found">>
                         \/ StoreFailure(tx'[c].err)
             /\ hc'[c].pc = "done"
                   => /\ log'[Len(log')].err = tx[c].err
                      /\ log'[Len(log')].status = ""
                      /\ tx[c].err # NilErr]_vars

\* a call on an identifier without a row returned "payment not found", and
\* the table is the one the callers started on
C22_Witness ==
    \E i \in 1..Len(log) :
       /\ log[i].via = "repo"
       /\ StatusIn(payments0, log[i].id) = ""
       /\ log[i].err = <<"payment", "not", "found">>
       /\ payments = payments0
       /\ payments # {}

\* C23: when the transaction of a call has read a status other than
\* PENDING, the row it read is still the committed row; its next step ends
\* the transaction with "payment already processed: current status is S", S
\* being that status, and writes nothing; the call returns that error, and
\* from the read to the return the row, its status and its updated
\* timestamp included, stays as it was.
C23_AlreadyProcessedNoWrite ==
    [][\A c \in Callers : \A id \in PaymentIDs :
          /\ ( /\ RepoCallStep(c, id)
               /\ tx[c].pc = "check"
               /\ tx[c].dbPayment.Status # PaymentStatusPending )
                => /\ tx[c].dbPayment = Row(id)
                   /\ tx'[c].pc = "done"
                   /\ tx'[c].err = <<"payment", "already", "processed", ":",
                                     "current", "status", "is", Row(id).Status>>
                   /\ payments' = payments
          /\ ( /\ RepoCallStep(c, id)
               /\ hc'[c].pc = "done"
               /\ AlreadyProcessed(tx[c].err) )
                => /\ payments' = payments
                   /\ log'[Len(log')].err = tx[c].err
                   /\ tx[c].err[Len(tx[c].err)] = StatusOf(id)
                   /\ StatusOf(id) \in TerminalStatuses]_vars

\* a call on a payment that was SUCCESS or FAILED from the start returned
\* the error naming that status, and the row is the one the store started with
C23_Witness ==
    \E i \in 1..Len(log) : \E r \in payments0 :
       /\ log[i].via = "repo"
       /\ log[i].id = r.ID
       /\ r.Status \in TerminalStatuses
       /\ log[i].err = <<"payment", "already", "processed", ":",
                         "current", "status", "is", r.Status>>
       /\ r \in payments

\* ------------------------------------------------------ claims on GetPayment
\* C24: a CreatePayment call that returns nil returns a response with status
\* PENDING, and at that moment the row is PENDING; a GetPayment for the
\* identifier of the response that reads the row before any transition of the
\* payment is committed, and without a failure of the database, returns status
\* PENDING with the fields of the response.
C24_GetAfterCreatePending ==
    [][\A c \in Clients : \A id \in PaymentIDs :
          /\ (cl[c].pc = "publish" /\ cl'[c].pc = "done" /\ cl'[c].err = NilErr)
                => /\ cl'[c].resp.Status = PaymentStatusPending
                   /\ StatusIn(payments', cl'[c].resp.ID) = PaymentStatusPending
          /\ ( /\ cl[c].pc = "done" /\ cl'[c].pc = "got"
               /\ cl[c].resp.ID = id
               /\ changes[id] = 0
               /\ ~StoreFailure(cl'[c].getErr) )
                => /\ cl'[c].getErr = NilErr
                   /\ cl'[c].got.Status = PaymentStatusPending
                   /\ cl'[c].got = cl[c].resp
                   /\ cl'[c].got.ID = id]_vars

\* a client read back PENDING for the payment it created while a worker is
\* in the transaction of that payment, its write not yet committed
C24_Witness ==
    \E c \in Clients : \E w \in Workers :
       /\ cl[c].pc = "got"
       /\ cl[c].got.Status = PaymentStatusPending
       /\ cl[c].got.ID = cl[c].resp.ID
       /\ tx[w].id = cl[c].got.ID
       /\ tx[w].pc = "commit"
       /\ changes[cl[c].got.ID] = 0

\* ------------------------------------------------------ claims on the rows
\* the attributes of a row that are fixed at creation
Fixed(p) == <<p.ID, p.Amount, p.Currency, p.Reference, p.CreatedAt>>

\* C25: through every step of the system (creations by other calls,
\* transitions, failed transactions) every stored row keeps its identifier,
\* amount, currency, reference and created timestamp; a step that commits a
\* transition changes at most the status and the updated timestamp of the row
\* it targets, adds and removes no row, and leaves every other row as it was.
C25_FixedAttributes ==
    [][/\ \A p \in payments :
             \E q \in payments' : q.ID = p.ID /\ Fixed(q) = Fixed(p)
       /\ \A w \in Workers :
             (tx[w].pc = "commit" /\ tx'[w].pc = "done" /\ tx'[w].err = NilErr)
             => /\ \A p \in payments : p.ID # tx[w].id => p \in payments'
                /\ {q.ID : q \in payments'} = {p.ID : p \in payments}
                /\ Cardinality(payments') = Cardinality(payments)
                /\ StatusIn(payments', tx[w].id) = tx[w].newStatus]_vars

\* of two stored payments one was processed at a later clock reading than
\* its creation and the other is still as it was created
C25_Witness ==
    \E p, q \in payments :
       /\ p.ID # q.ID
       /\ p.Status \in TerminalStatuses
       /\ changes[p.ID] = 1
       /\ p.UpdatedAt > p.CreatedAt
       /\ q.Status = PaymentStatusPending
       /\ q.UpdatedAt = q.CreatedAt

C27_UpdatedNotBeforeCreated ==
    /\ [](\A p \in payments : p.UpdatedAt >= p.CreatedAt)
    /\ [][\A w \in Workers : \A id \in PaymentIDs :
            (/\ tx[w].pc = "commit" /\ tx[w].id = id
             /\ tx'[w].pc = "done" /\ tx'[w].err = NilErr)
            => /\ RowExists(id)
               /\ \E q \in payments' :
                     /\ q.ID = id
                     /\ q.UpdatedAt >= Row(id).UpdatedAt
                     /\ q.UpdatedAt >= q.CreatedAt]_vars

\* a worker has just committed the transition of a row whose updated
\* timestamp is now later than its created one, beside a row that was
\* stamped once, at its insert
C27_Witness ==
    \E w \in Workers : \E p, q \in payments :
       /\ tx[w].pc = "done" /\ tx[w].err = NilErr /\ tx[w].id = p.ID
       /\ p.Status \in TerminalStatuses
       /\ p.UpdatedAt > p.CreatedAt
       /\ q.Status = PaymentStatusPending
       /\ q.CreatedAt # ZeroTime
       /\ q.UpdatedAt = q.CreatedAt

\* ---------------------------------------------- claims on the row lock
\* call p is between its locked read and the end of its transaction
HoldsRow(p, id) == tx[p].id = id /\ tx[p].pc \in {"check", "save", "commit"}

\* C28: from the locked read of a ProcessPayment call to its commit or
\* rollback the call holds the row's lock without a gap: the lock is its own,
\* no other call for the same id is past its own read, the committed row is
\* still the one that was read (PENDING once the guard has passed); and while
\* it holds the row no other call for the id performs its read, and the only
\* step that changes the row is this call's own commit.
C28_OneHoldOfTheLock ==
    /\ [](\A p \in Procs : \A id \in PaymentIDs :
            HoldsRow(p, id)
            => /\ rowLock[id] = p
               /\ RowExists(id)
               /\ \A q \in Procs \ {p} : ~HoldsRow(q, id)
               /\ tx[p].pc = "check" => Row(id) = tx[p].dbPayment
               /\ tx[p].pc \in {"save", "commit"}
                     => /\ Row(id).Status = PaymentStatusPending
                        /\ Fixed(Row(id)) = Fixed(tx[p].dbPayment))
    /\ [][\A p \in Procs : \A id \in PaymentIDs :
            HoldsRow(p, id)
            => /\ \A q \in Procs \ {p} :
                     ~(tx[q].id = id /\ tx[q].pc = "lock" /\ tx'[q].pc = "check")
               /\ Row(id)' # Row(id) => (tx[p].pc = "commit" /\ tx'[p].pc = "done")
               /\ rowLock'[id] # p => tx'[p].pc = "done"]_vars

\* one call has read the PENDING row and is about to write it while another
\* call for the same id waits for the lock
C28_Witness ==
    \E p, q \in Callers : \E id \in PaymentIDs :
       /\ p # q
       /\ HoldsRow(p, id) /\ tx[p].pc = "commit"
       /\ tx[q].id = id /\ tx[q].pc = "lock"
       /\ rowLock[id] = p
       /\ StatusOf(id) = PaymentStatusPending

\* the target status the processor of caller c chose, while the call runs
\* and after it returned
Chosen(c) == IF hc[c].pc = "done" THEN hc[c].target ELSE pr[c].status

\* the calls made so far on id are handlings by the processor and none has
\* met a failure of the database
HandlingsNoFailure(id) ==
    /\ \A c \in Callers :
          hc[c].id = id
          => /\ hc[c].via = "processor"
             /\ ~StoreFailure(tx[c].err)
             /\ ~StoreFailure(pr[c].err)
    /\ \A i \in CallsOn(id) : ~StoreFailure(log[i].err)

\* C29: handlings of one PENDING payment, none meeting a failure of the
\* database, take the row's lock one after the other, each once; as soon as
\* the status is no longer PENDING, and for ever after, it is the target the
\* first handling to take the lock had chosen, written by the one status
\* change; a handling that took the lock later never gets to the write,
\* whatever target it chose, and is refused with the already-processed error.
C29_FirstLockerWins ==
    \A id \in PaymentIDs :
       (StatusIn(payments0, id) = PaymentStatusPending /\ HandlingsNoFailure(id))
       => LET order == lockOrder[id]
          IN  /\ \A i, j \in 1..Len(order) : order[i] = order[j] => i = j
              /\ StatusOf(id) # PaymentStatusPending
                    => /\ order # << >>
                       /\ StatusOf(id) = Chosen(order[1])
                       /\ changes[id] = 1
              /\ (AllReturned(id) /\ order # << >>)
                    => StatusOf(id) = Chosen(order[1])
              /\ \A k \in 2..Len(order) :
                    /\ ~(tx[order[k]].id = id /\ tx[order[k]].pc \in {"save", "commit"})
                    /\ \A i \in CallsOn(id) :
                          log[i].caller = order[k] => AlreadyProcessed(log[i].err)

\* two handlings of one PENDING payment chose different targets; both had
\* been called before either returned, both have returned, and the payment
\* has the target of the one that locked first
C29_Witness ==
    \E id \in PaymentIDs : \E p, q \in Callers :
       /\ StatusIn(payments0, id) = PaymentStatusPending
       /\ HandlingsNoFailure(id)
       /\ lockOrder[id] = <<p, q>>
       /\ AllReturned(id)
       /\ Chosen(p) # Chosen(q)
       /\ StatusOf(id) = Chosen(p)
       /\ hc[p].startLen = 0 /\ hc[q].startLen = 0
       /\ \E i \in CallsOn(id) : log[i].caller = q /\ AlreadyProcessed(log[i].err)

\* C30: every call of the conditional transition that
\* PaymentProcessor.ProcessPayment makes carries the target SUCCESS or FAILED,
\* never PENDING; the commit of such a call leaves the row in that terminal
\* status, and every handling that returned nil found the payment in the
\* terminal status it had asked for.
C30_ProcessorTargetsTerminal ==
    /\ [](/\ \A p \in Callers :
               (hc[p].via = "processor" /\ pr[p].pc \in {"repo", "done"})
               => /\ pr[p].status \in {PaymentStatusSuccess, PaymentStatusFailed}
                  /\ tx[p].pc # "idle" => tx[p].newStatus = pr[p].status
          /\ \A i \in 1..Len(log) :
               (log[i].via = "processor" /\ log[i].err = NilErr)
               => /\ log[i].target \in {PaymentStatusSuccess, PaymentStatusFailed}
                  /\ log[i].status = log[i].target
                  /\ StatusOf(log[i].id) = log[i].target)
    /\ [][\A p \in Callers : \A id \in PaymentIDs :
            (/\ hc[p].via = "processor"
             /\ tx[p].id = id /\ tx[p].pc = "commit"
             /\ tx'[p].pc = "done" /\ tx'[p].err = NilErr)
            => /\ StatusIn(payments', id) \in {PaymentStatusSuccess, PaymentStatusFailed}
               /\ StatusIn(payments', id) = pr[p].status]_vars

\* a handling by the processor returned nil and left the PENDING payment in
\* the terminal status it drew, while a direct call of the repository
\* carried the target PENDING
C30_Witness ==
    \E i, j \in 1..Len(log) :
       /\ log[i].via = "processor"
       /\ log[i].err = NilErr
       /\ StatusIn(payments0, log[i].id) = PaymentStatusPending
       /\ log[i].target \in TerminalStatuses
       /\ StatusOf(log[i].id) = log[i].target
       /\ log[j].via = "repo"
       /\ log[j].target = PaymentStatusPending

\* the step is the commit of a conditional transition on id
TransitionCommits(id) ==
    \E p \in Procs :
       /\ tx[p].id = id /\ tx[p].pc = "commit"
       /\ tx'[p].pc = "done" /\ tx'[p].err = NilErr

\* C31: a step that changes the status of a row that exists is the commit of
\* a conditional transition on that row; every other step (the steps of
\* CreatePayment, among them the reference check, the insert of another row
\* and the publish, GetPayment, delivery, the loop's decoding, ack and nack)
\* leaves every existing row exactly as it was.
C31_OnlyTransitionChangesStatus ==
    [][\A id \in PaymentIDs :
          RowExists(id)
          => /\ StatusIn(payments', id) # StatusOf(id)
                => /\ TransitionCommits(id)
                   /\ cl' = cl /\ queue' = queue /\ unacked' = unacked
             /\ ~TransitionCommits(id) => Row(id) \in payments']_vars

\* a payment was read back by its creator, a second call was refused for its
\* reference, its notice was put back on the queue by a nack, and then its
\* transition was committed
C31_Witness ==
    \E c, d \in Clients : \E id \in PaymentIDs :
       /\ cl[c].pc = "got" /\ cl[c].getErr = NilErr /\ cl[c].resp.ID = id
       /\ cl[d].pc = "done" /\ IsConflict(cl[d].err)
       /\ cl[d].req.Reference = cl[c].req.Reference
       /\ RowExists(id)
       /\ StatusOf(id) \in TerminalStatuses
       /\ changes[id] = 1
       /\ \E w \in Workers :
             /\ unacked[w] # << >>
             /\ Head(unacked[w]).Redelivered
             /\ NoticeId(Head(unacked[w])) = id

\* ------------------------------------------- claims on the stranded payment
\* the CreatePayment call of client c inserted its row and failed to publish
Stranded(c) == cl[c].pc = "done" /\ IsCreatedButNotQueued(cl[c].err)

\* C32: once a CreatePayment call has inserted its row and failed to publish,
\* in that state and in every later one the channel holds no notice of the
\* payment, no worker handles it, no notice of it was ever acknowledged, and
\* its row is in PENDING without any status change: the call stays as it
\* ended and nothing in the system publishes the notice later.
C32_StrandedStaysPending ==
    /\ [](\A c \in Clients :
            Stranded(c)
            => LET id == cl[c].payment.ID
               IN  /\ InChannel(id) = 0
                   /\ \A w \in Workers :
                         /\ wk[w].paymentMsg.PaymentID # id
                         /\ pr[w].paymentID # id
                         /\ tx[w].id # id
                   /\ \A x \in acked : Unmarshal(x.body).msg.PaymentID # id
                   /\ RowExists(id)
                   /\ StatusOf(id) = PaymentStatusPending
                   /\ changes[id] = 0)
    /\ [][\A c \in Clients : Stranded(c) => cl'[c] = cl[c]]_vars

\* one payment is stranded in PENDING while the workers are idle, the queue
\* is empty and the payment created by the other call was processed
C32_Witness ==
    \E c, d \in Clients :
       /\ Stranded(c)
       /\ StatusOf(cl[c].payment.ID) = PaymentStatusPending
       /\ cl[d].pc = "done" /\ cl[d].err = NilErr
       /\ StatusOf(cl[d].resp.ID) \in TerminalStatuses
       /\ queue = << >>
       /\ \A w \in Workers : unacked[w] = << >> /\ wk[w].pc = "range"

\* the deliveries the channel holds: ready on the queue or pushed to a
\* consumer and not settled
Deliveries ==
    {queue[i] : i \in 1..Len(queue)}
    \cup UNION {{unacked[w][i] : i \in 1..Len(unacked[w])} : w \in Workers}

\* C33: in every reachable state of the system, every notice that a
\* CreatePayment call has published and that is on the queue, pushed to a
\* worker, or being handled names a row that is in the table, and equally the
\* identifier every published body carries; so no handling of a notice ends,
\* or has ever ended, with the not-found error.
C33_NoticeNamesStoredRow ==
    /\ \A d \in Deliveries : Decodable(d) /\ RowExists(NoticeId(d))
    /\ \A c \in Clients : \A i \in 1..Len(cl[c].published) :
          /\ Unmarshal(cl[c].published[i]).msg.PaymentID = cl[c].payment.ID
          /\ RowExists(cl[c].payment.ID)
    /\ \A w \in Workers :
          /\ wk[w].pc = "handler" => RowExists(wk[w].paymentMsg.PaymentID)
          /\ tx[w].pc # "idle" => RowExists(tx[w].id)
          /\ ~Contains(tx[w].err, <<"payment", "not", "found">>)
          /\ ~Contains(pr[w].err, <<"payment", "not", "found">>)
    /\ \A x \in acked : ~Contains(x.err, <<"payment", "not", "found">>)

\* the notice of one created payment was handled and acknowledged, the
\* notice of another is being handled: its worker holds the lock of the row
\* it found
C33_Witness ==
    \E c, d \in Clients : \E w \in Workers :
       /\ c # d
       /\ cl[c].published # << >> /\ cl[d].published # << >>
       /\ [body |-> cl[c].published[1], err |-> NilErr] \in acked
       /\ wk[w].pc = "handler"
       /\ wk[w].paymentMsg.PaymentID = cl[d].payment.ID
       /\ tx[w].pc = "check"
       /\ rowLock[cl[d].payment.ID] = w

\* ------------------------------------------------ claims on the settlement
\* the loop of worker w ends its work on the delivery it holds in this step:
\* it leaves its handler, or it stays at the range having found that the
\* body does not decode
LoopDoneWithDelivery(w) ==
    /\ ~StopStep(w)
    /\ \/ wk[w].pc = "handler" /\ wk'[w].pc # "handler"
       \/ /\ wk[w].pc = "range" /\ wk'[w].pc = "range"
          /\ unacked[w] # << >> /\ ~Decodable(Head(unacked[w]))
          /\ unacked'[w] # unacked[w]

\* C34: a running loop is done with a delivery exactly in a step that
\* settles it once: the step is an ack (the delivery leaves the channel and
\* is noted as acknowledged) or a nack with requeue (the delivery is back at
\* the head of the queue and nothing is acknowledged), never both and never
\* neither, on the four paths alike: decode error, terminal handler error,
\* other handler error, success; after the step the consumer holds no
\* unsettled delivery, and the broker pushes a delivery to a consumer only
\* when it holds none.
C34_ExactlyOneSettlement ==
    [][\A w \in Workers :
          /\ LoopDoneWithDelivery(w)
                => /\ unacked[w] # << >>
                   /\ unacked'[w] = << >>
                   /\ wk'[w].pc = "range"
                   /\ \/ /\ AckStep(w) /\ ~NackStep(w)
                         /\ acked' = acked \cup {[body |-> Head(unacked[w]).Body,
                                                   err |-> pr[w].err]}
                         /\ wk[w].pc = "handler"
                         /\ pr[w].err = NilErr
                              \/ Contains(pr[w].err, <<"already", "processed">>)
                              \/ Contains(pr[w].err, <<"payment", "not", "found">>)
                      \/ /\ NackStep(w) /\ ~AckStep(w)
                         /\ acked' = acked
                         /\ \/ wk[w].pc = "range"
                            \/ /\ pr[w].err # NilErr
                               /\ ~Contains(pr[w].err, <<"already", "processed">>)
                               /\ ~Contains(pr[w].err, <<"payment", "not", "found">>)
          /\ (unacked'[w] # unacked[w] /\ ~StopStep(w))
                => \/ LoopDoneWithDelivery(w)
                   \/ /\ unacked[w] = << >> /\ Len(unacked'[w]) = 1
                      /\ wk[w].pc = "range"]_vars

\* no worker has stopped and the loops have settled deliveries both ways
\* and hold none: a success was acknowledged, an undecodable body was
\* rejected and requeued, and a notice was rejected after a store failure
\* and requeued
C34_Witness ==
    /\ NoWorkerStopped
    /\ \E x \in acked : x.err = NilErr
    /\ \E i \in 1..Len(queue) : ~Decodable(queue[i]) /\ queue[i].Redelivered
    /\ \E i \in 1..Len(queue) : Decodable(queue[i]) /\ queue[i].Redelivered
    /\ \A w \in Workers : unacked[w] = << >> /\ wk[w].pc = "range"

\* ------------------------------------------------ claims on termination
\* the row locks call p holds
LocksOf(p) == {id \in PaymentIDs : rowLock[id] = p}

\* C35: a ProcessPayment call holds a row lock only between its locked read
\* and the end of its transaction, and then exactly the lock of its own row:
\* whichever way the transaction ends (not found, already processed, failed
\* update, failed or successful commit) the call holds no lock afterwards;
\* and concurrent calls on any identifiers, each going on with its steps and
\* given the lock it waits for once that stays free, all return: none waits
\* for ever.
C35_LockReleasedCallsReturn ==
    /\ [](\A p \in Callers :
            /\ tx[p].pc \in {"idle", "lock", "done"} => LocksOf(p) = {}
            /\ tx[p].pc \in {"check", "save", "commit"} => LocksOf(p) = {tx[p].id})
    /\ \A c \in Callers :
          (hc[c].pc = "called") ~> (hc[c].pc = "done" /\ LocksOf(c) = {})

\* every caller called on the same PENDING payment before any returned; all
\* have returned, one with nil and the others refused after their wait, and
\* no lock is held
C35_Witness ==
    \E id \in PaymentIDs :
       /\ StatusIn(payments0, id) = PaymentStatusPending
       /\ Len(log) = NumCallers
       /\ \A i \in 1..Len(log) : log[i].id = id /\ log[i].startLen = 0
       /\ \E i \in 1..Len(log) : log[i].err = NilErr /\ log[i].target \in TerminalStatuses
       /\ \E i \in 1..Len(log) : AlreadyProcessed(log[i].err)
       /\ \A k \in PaymentIDs : rowLock[k] = NoProc
       /\ \A c \in Callers : tx[c].pc = "idle"

\* C36: while a payment is stranded by a CreatePayment call that inserted
\* its row and failed to publish, no other call with the same reference
\* (compared after trimming) has inserted a row or published a notice; and a
\* call with that reference that reaches the reference check from then on,
\* the query not failing, ends there with "reference already exists",
\* leaving the table and the queue as they were: a retry of the request
\* cannot put the stranded payment on the queue.
C36_RetryOfStrandedRefused ==
    /\ [](\A c, d \in Clients :
            (/\ c # d /\ Stranded(c)
             /\ cl[d].pc # "idle"
             /\ TrimSpace(cl[d].req.Reference) = cl[c].req.Reference)
            => /\ ~Inserted(d)
               /\ cl[d].published = << >>
               /\ cl[d].pc \in {"validate", "refcheck", "create", "done"}
               /\ cl[d].pc = "done" => cl[d].err # NilErr)
    /\ [][\A c, d \in Clients :
            (/\ c # d /\ Stranded(c)
             /\ cl[d].pc = "refcheck" /\ cl'[d].pc # "refcheck"
             /\ cl[d].req.Reference = cl[c].req.Reference
             /\ ~StoreFailure(cl'[d].err))
            => /\ cl'[d].pc = "done"
               /\ cl'[d].err = <<"reference", "already", "exists">>
               /\ cl'[d].published = << >>
               /\ payments' = payments
               /\ queue' = queue
               /\ unacked' = unacked]_vars

\* a payment is stranded in PENDING, and the other call, which has the same
\* reference once trimmed, was refused at the reference check without an
\* entity or a notice
C36_Witness ==
    \E c, d \in Clients :
       /\ c # d
       /\ Stranded(c)
       /\ StatusOf(cl[c].payment.ID) = PaymentStatusPending
       /\ cl[d].pc = "done"
       /\ cl[d].err = ErrRefExists
       /\ ~PassedPreCheck(d)
       /\ cl[d].req.Reference = cl[c].req.Reference
       /\ cl[d].published = << >>
       /\ queue = << >>

\* ------------------------------------------------ claims on the reference
\* s has no blank at either end
NoOuterBlank(s) == s = << >> \/ (~IsSpace(s[1]) /\ ~IsSpace(s[Len(s)]))

\* raw is s with blanks, and nothing else, added before and after
BlanksAround(raw, s) ==
    \E a \in 0..Len(raw) :
       /\ a + Len(s) <= Len(raw)
       /\ SubSeq(raw, a + 1, a + Len(s)) = s
       /\ \A k \in 1..a : IsSpace(raw[k])
       /\ \A k \in (a + Len(s) + 1)..Len(raw) : IsSpace(raw[k])

\* s is raw without its surrounding blanks
StrippedOf(raw, s) == NoOuterBlank(s) /\ BlanksAround(raw, s)

\* C37: once a request has passed the amount and currency validations, the
\* reference CreatePayment works with is the reference that was sent without
\* its surrounding blanks: that value is looked up by the reference check,
\* carried by the entity and stored in the row, so that no stored reference
\* is empty or has a blank at either end; and the reference check of a call
\* whose reference, as sent, is a stored reference with blanks around it
\* ends the call, the query not failing, with "reference already exists".
C37_ReferenceTrimmed ==
    /\ [](/\ \A c \in Clients :
               (cl[c].pc \in {"refcheck", "create", "publish"}
                  \/ (cl[c].pc = "done" /\ cl[c].err \notin {ErrAmount, ErrCurrency}))
               => /\ StrippedOf(sent[c], cl[c].req.Reference)
                  /\ cl[c].err = ErrReference <=> cl[c].req.Reference = << >>
                  /\ PassedPreCheck(c) => cl[c].payment.Reference = cl[c].req.Reference
                  /\ Inserted(c)
                        => /\ RowExists(cl[c].payment.ID)
                           /\ StrippedOf(sent[c], Row(cl[c].payment.ID).Reference)
          /\ \A p \in payments : p.Reference # << >> /\ NoOuterBlank(p.Reference))
    /\ [][\A d \in Clients :
            (/\ cl[d].pc = "refcheck" /\ cl'[d].pc # "refcheck"
             /\ \E p \in payments : BlanksAround(sent[d], p.Reference)
             /\ ~StoreFailure(cl'[d].err))
            => /\ cl'[d].pc = "done"
               /\ cl'[d].err = <<"reference", "already", "exists">>
               /\ payments' = payments
               /\ queue' = queue]_vars

\* one call, sent with a blank before its reference, stored the reference
\* without the blank; the other call, sent with the same reference followed
\* by a blank, was refused at the reference check
C37_Witness ==
    \E c, d \in Clients :
       /\ sent[c] = <<" ", "a">>
       /\ Inserted(c)
       /\ Row(cl[c].payment.ID).Reference = <<"a">>
       /\ sent[d] = <<"a", " ">>
       /\ cl[d].pc = "done"
       /\ cl[d].err = ErrRefExists
       /\ Cardinality(payments) = 1

====
